---------------------------- MODULE Spec2Model ----------------------------
(***************************************************************************)
(* A model of rlox: a single-pass compiler and stack-based bytecode VM for *)
(* Lox.  The module holds one state machine per component:                 *)
(*                                                                         *)
(*   SpecIntern    StringInterns (src/src/value/string_intern.rs) driven   *)
(*                 by a client that holds, clones and drops the returned   *)
(*                 references;                                             *)
(*   SpecChunk     Chunk (src/src/chunk.rs) driven by write and            *)
(*                 add_constant, with the disassembler's decoding;         *)
(*   SpecCompiler  the compiler's local table                              *)
(*                 (src/src/compiler/compiler_state.rs) driven the way the *)
(*                 parser drives it;                                       *)
(*   SpecVM        VM::interpret (src/src/vm.rs): the parser compiles a    *)
(*                 token stream into a chunk and the dispatch loop runs    *)
(*                 it, one instruction per step.                           *)
(*                                                                         *)
(* Text is a sequence of one-character strings, so that slicing and        *)
(* concatenation are computed, not assumed.                                *)
(***************************************************************************)
EXTENDS Integers, Sequences, FiniteSets, Bags, TLC

VARIABLES
    strings,    \* StringInterns.0: text -> address of the weakly held string
    held,       \* SpecIntern: the bag of Rc references the client holds
    iop,        \* SpecIntern: the last operation and what it returned
    chunk,      \* Chunk: [code, constants, lines]
    written,    \* SpecChunk: the Ops handed to Chunk::write so far
    adds,       \* SpecChunk, SpecPool: number of add_constant calls so far
    cop,        \* SpecChunk, SpecPool: the last Chunk operation and its result
    compiler,   \* Compiler: [scope_depth, locals]; local_count is Len(locals)
    declaring,  \* SpecCompiler: a variable declaration awaits define_variable
    added,      \* SpecCompiler: per open scope, the locals add_local added
    decls,      \* SpecCompiler: the variable declarations compiled so far
    kop,        \* SpecCompiler: the last Compiler operation and its result
    vm,         \* VM: ip, values, strings, globals, and what it printed
    running,    \* SpecVM: the chunk that run is executing, if any
    vop,        \* SpecVM: the last VM operation and its result
    calls,      \* SpecVM: the interpret calls so far
    steps,      \* SpecVM: the instructions run of the current chunk
    collected,  \* SpecVM: garbage_collect has run since the first interpret
    scanning,   \* SpecScanner: the Scanner
    sop,        \* SpecScanner: the last scan_token call and its result
    parsing,    \* SpecParser: the Parser
    pop         \* SpecParser: the last Parser method called and its result

internVars == <<strings, held, iop>>
chunkVars == <<chunk, written, adds, cop>>
compilerVars == <<compiler, declaring, added, decls, kop>>

vmVars == <<vm, running, vop, calls, steps, collected>>
scannerVars == <<scanning, sop>>
parserVars == <<parsing, pop>>
frontVars == <<scanning, sop, parsing, pop>>

vars == <<strings, held, iop, chunk, written, adds, cop,
          compiler, declaring, added, decls, kop,
          vm, running, vop, calls, steps, collected, scanning, sop,
          parsing, pop>>

-----------------------------------------------------------------------------
(* Bounds of the model.                                                    *)

\* Most references the client of SpecIntern holds at once.
MaxHeld == 3
\* Most Chunk::write calls in SpecChunk.
MaxWrites == 2
\* Most add_constant calls in SpecChunk.
MaxAdds == 2
\* Most add_constant calls in SpecPool.
MaxPoolAdds == 4
\* Deepest block nesting in SpecCompiler.
MaxDepth == 3
\* Most variable declarations in SpecCompiler.
MaxDecls == 4
\* Most interpret calls in SpecVM.
MaxCalls == 2
\* Most instructions run per interpret call in SpecVM.
MaxSteps == 40

-----------------------------------------------------------------------------
(* Generic helpers.                                                        *)

\* Option<T>.
None == [none |-> TRUE]
Some(x) == [some |-> x]

\* The largest u8 and u16.
U8_MAX == 255
U16_MAX == 65535

Min(S) == CHOOSE x \in S : \A y \in S : x <= y
Max(S) == CHOOSE x \in S : \A y \in S : x >= y

\* The decimal digits of n, as text.
RECURSIVE Decimal(_)
Decimal(n) ==
    LET digit == << "0", "1", "2", "3", "4", "5", "6", "7", "8", "9" >>
    IN  IF n < 10 THEN << digit[n + 1] >>
        ELSE Append(Decimal(n \div 10), digit[(n % 10) + 1])

Range(f) == {f[k] : k \in DOMAIN f}


-----------------------------------------------------------------------------
(* Values (src/src/value.rs).  A String value holds an Rc: the address of  *)
(* the shared allocation and, since the allocation is immutable, its text. *)

\* Natural numbers of any size (f64 has 53 bits of mantissa and powers of
\* two up to 2^1074 below the point): the digits in base BigBase, the least
\* significant first, with no zero digit at the end; <<>> is 0.  A digit
\* holds four decimal digits: the product of two fits the integers of TLC.
BigBaseDigits == Len(<< 0, 0, 0, 0 >>)
BigBase == 10 ^ BigBaseDigits

BigOne == << 1 >>

\* The digits of a without the zeros at the end.
BigTrim(a) ==
    IF a = <<>> \/ a[Len(a)] # 0 THEN a
    ELSE SubSeq(a, 1, CHOOSE n \in 0..Len(a) :
                        /\ n = 0 \/ a[n] # 0
                        /\ \A k \in (n + 1)..Len(a) : a[k] = 0)

\* The big number of a natural number below 2^31.
RECURSIVE BigOf(_)
BigOf(n) ==
    IF n = 0 THEN <<>> ELSE << n % BigBase >> \o BigOf(n \div BigBase)

\* The i-th digit of a, 0 beyond the last.
BigDigitAt(a, i) == IF i <= Len(a) THEN a[i] ELSE 0

\* The carry into digit i of the digit sums: the nearest sum below i that
\* is not BigBase - 1 overflows.
CarryInto(sums, i) ==
    \E j \in 1..(i - 1) :
        /\ sums[j] >= BigBase
        /\ \A k \in (j + 1)..(i - 1) : sums[k] = BigBase - 1

BigAddSums(sums) ==
    BigTrim([i \in 1..(Len(sums) + 1) |->
                (BigDigitAt(sums, i)
                    + (IF CarryInto(sums, i) THEN 1 ELSE 0)) % BigBase])

\* a + b; the digits of a and b may end in zeros.
BigAdd(a, b) ==
    BigAddSums([i \in 1..Max({Len(a), Len(b)}) |->
                    BigDigitAt(a, i) + BigDigitAt(b, i)])

\* The borrow from digit i of the digit differences: the nearest
\* difference below i that is not 0 is negative.
BorrowFrom(diffs, i) ==
    \E j \in 1..(i - 1) :
        /\ diffs[j] < 0
        /\ \A k \in (j + 1)..(i - 1) : diffs[k] = 0

BigSubDiffs(diffs) ==
    BigTrim([i \in DOMAIN diffs |->
                (diffs[i] - (IF BorrowFrom(diffs, i) THEN 1 ELSE 0)
                    + BigBase) % BigBase])

\* a - b, for b <= a.
BigSub(a, b) == BigSubDiffs([i \in DOMAIN a |-> a[i] - BigDigitAt(b, i)])

\* a < b: the highest digit in which they differ is less in a.
BigLt(a, b) ==
    IF Len(a) # Len(b) THEN Len(a) < Len(b)
    ELSE \E i \in DOMAIN a :
            /\ a[i] < b[i]
            /\ \A k \in (i + 1)..Len(a) : a[k] = b[k]

BigLe(a, b) == ~BigLt(b, a)

\* a * k, for k up to BigBase: the low digits of the products and, one
\* place up, the high ones.
BigMulSmall(a, k) ==
    BigAdd([i \in DOMAIN a |-> (a[i] * k) % BigBase],
           << 0 >> \o [i \in DOMAIN a |-> (a[i] * k) \div BigBase])

\* a * BigBase^n.
BigShift(a, n) == IF a = <<>> THEN a ELSE [i \in 1..n |-> 0] \o a

\* a * b: by the halves of b.
RECURSIVE BigMul(_, _)
BigMul(a, b) ==
    IF a = <<>> \/ b = <<>> THEN <<>>
    ELSE IF b = BigOne THEN a
    ELSE IF a = BigOne THEN b
    ELSE IF Len(b) = 1 THEN BigMulSmall(a, b[1])
    ELSE BigAdd(BigMul(a, BigTrim(SubSeq(b, 1, Len(b) \div 2))),
                BigShift(BigMul(a, SubSeq(b, Len(b) \div 2 + 1, Len(b))),
                         Len(b) \div 2))

BigDouble(a) == BigAdd(a, a)

BigIsEven(a) == a = <<>> \/ a[1] % 2 = 0

\* 2^n, 5^n and 10^n.
RECURSIVE BigPow2(_)
BigPow2(n) ==
    IF n = 0 THEN BigOne
    ELSE CHOOSE ret \in
            {IF n % 2 = 0 THEN BigMul(half, half)
             ELSE BigDouble(BigMul(half, half)) :
                half \in {BigPow2(n \div 2)}} : TRUE

RECURSIVE BigPow5(_)
BigPow5(n) ==
    IF n = 0 THEN BigOne
    ELSE CHOOSE ret \in
            {IF n % 2 = 0 THEN BigMul(half, half)
             ELSE BigMulSmall(BigMul(half, half), 5) :
                half \in {BigPow5(n \div 2)}} : TRUE

BigPow10(n) ==
    [i \in 1..(n \div BigBaseDigits) |-> 0]
        \o << 10 ^ (n % BigBaseDigits) >>

\* The largest d in lo..hi with d * b <= a, when lo * b <= a.
RECURSIVE BigDigit(_, _, _, _)
BigDigit(a, b, lo, hi) ==
    IF lo = hi THEN lo
    ELSE IF BigLe(BigMulSmall(b, (lo + hi + 1) \div 2), a)
    THEN BigDigit(a, b, (lo + hi + 1) \div 2, hi)
    ELSE BigDigit(a, b, lo, (lo + hi + 1) \div 2 - 1)

\* One step of long division: the digit of the quotient for `cur`, put
\* below the digits `upper` found before.
BigDivDigit(cur, b, upper) ==
    CHOOSE ret \in
        {[quot |-> << d >> \o upper,
          rem |-> BigSub(cur, BigMulSmall(b, d))] :
            d \in {BigDigit(cur, b, 0, BigBase - 1)}} : TRUE

\* Long division: the quotient and the remainder by b of the digits of a
\* from the i-th up; the quotient may end in zeros.  Fewer digits than b
\* has are less than b.
RECURSIVE BigDivModFrom(_, _, _)
BigDivModFrom(a, b, i) ==
    IF i > Len(a) - Len(b) + 1
    THEN [quot |-> <<>>, rem |-> BigTrim(SubSeq(a, Max({i, 1}), Len(a)))]
    ELSE CHOOSE ret \in
            {BigDivDigit(BigTrim(<< a[i] >> \o upper.rem), b, upper.quot) :
                upper \in {BigDivModFrom(a, b, i + 1)}} : TRUE

\* a \div b and a % b, for b > 0.
BigDivMod(a, b) ==
    CHOOSE ret \in
        {[quot |-> BigTrim(d.quot), rem |-> d.rem] :
            d \in {BigDivModFrom(a, b, 1)}} : TRUE

\* The decimal digits of a big number, the most significant first: those
\* of its digits in base BigBase, four each, without the zeros in front.
LeadingZeros(digits) ==
    CHOOSE n \in 0..Len(digits) :
        /\ n = Len(digits) \/ digits[n + 1] # 0
        /\ \A k \in 1..n : digits[k] = 0

TrailingZeros(digits) ==
    CHOOSE n \in 0..Len(digits) :
        /\ n = Len(digits) \/ digits[Len(digits) - n] # 0
        /\ \A k \in (Len(digits) - n + 1)..Len(digits) : digits[k] = 0

BigDecimal(a) ==
    LET padded == [i \in 1..(BigBaseDigits * Len(a)) |->
                    (a[Len(a) - ((i - 1) \div BigBaseDigits)]
                        \div (10 ^ (BigBaseDigits - 1
                                     - ((i - 1) % BigBaseDigits)))) % 10]
    IN  SubSeq(padded, LeadingZeros(padded) + 1, Len(padded))

\* The big number of decimal digits given the most significant first.
BigOfDecimal(digits) ==
    LET n == Len(digits)
        digit(i) == IF i >= 1 THEN digits[i] ELSE 0
    IN  BigTrim([j \in 1..((n + BigBaseDigits - 1) \div BigBaseDigits) |->
                    digit(n - BigBaseDigits * (j - 1))
                        + 10 * digit(n - BigBaseDigits * (j - 1) - 1)
                        + 100 * digit(n - BigBaseDigits * (j - 1) - 2)
                        + 1000 * digit(n - BigBaseDigits * (j - 1) - 3)])

\* The least n in lo..hi with a < 2^n, when a < 2^hi.
RECURSIVE BitLengthIn(_, _, _)
BitLengthIn(a, lo, hi) ==
    IF lo = hi THEN lo
    ELSE IF BigLt(a, BigPow2((lo + hi) \div 2))
    THEN BitLengthIn(a, lo, (lo + hi) \div 2)
    ELSE BitLengthIn(a, (lo + hi) \div 2 + 1, hi)

\* The number of bits of a > 0: BigBase lies between 2^13 and 2^14.
BitLength(a) == BitLengthIn(a, 13 * (Len(a) - 1) + 1, 14 * Len(a))

\* a * 2^s, and a for s <= 0.
ShiftLeft(a, s) == IF s > 0 THEN BigMul(a, BigPow2(s)) ELSE a

\* f64 (IEEE 754 binary64).  A finite value is its sign and the reduced
\* fraction num / den of its magnitude, two big numbers: den is a power of
\* two up to 2^1074 and num has at most 53 significant bits; the zeros are
\* 0 / 1 with either sign; the infinities are 1 / 0 with either sign; NaN is
\* 0 / 0.
NaN == [sign |-> 1, num |-> <<>>, den |-> <<>>]
Infinity(sign) == [sign |-> sign, num |-> BigOne, den |-> <<>>]
Zero(sign) == [sign |-> sign, num |-> <<>>, den |-> BigOne]

IsNaN(x) == x.num = <<>> /\ x.den = <<>>
IsInfinite(x) == x.num = BigOne /\ x.den = <<>>
IsZero(x) == x.num = <<>> /\ x.den = BigOne

\* The widths of f64: the bits of a mantissa, and the exponents of the
\* lowest bit of the smallest and of the largest finite value.
MANTISSA_DIGITS == 53
MIN_EXP == -1074
MAX_EXP == 971

TwoTo52 == BigPow2(MANTISSA_DIGITS - 1)
TwoTo53 == BigPow2(MANTISSA_DIGITS)

\* m / 2^k * 2^e: m * 5^k without its last k digits, over 2^(-e).
Halved(sign, m, e, k) ==
    CHOOSE ret \in
        {[sign |-> sign,
          num |-> BigOfDecimal(SubSeq(fives, 1, Len(fives) - k)),
          den |-> BigPow2(0 - e - k)] :
            fives \in {BigDecimal(BigMul(m, BigPow5(k)))}} : TRUE

\* sign * m * 2^e as a reduced fraction, for 0 < m <= 2^53.  With 2^t the
\* power of two in m, m * 5^53 ends in exactly t zeros.
Dyadic(sign, m, e) ==
    IF e >= 0
    THEN [sign |-> sign, num |-> BigMul(m, BigPow2(e)), den |-> BigOne]
    ELSE CHOOSE ret \in
            {Halved(sign, m, e, Min({0 - e, t})) :
                t \in {TrailingZeros(BigDecimal(
                        BigMul(m, BigPow5(MANTISSA_DIGITS))))}} : TRUE

\* The s with 2^52 <= p * 2^s / q < 2^53, or the largest s a subnormal
\* allows when that one is smaller.
F64Shift(p, q) ==
    CHOOSE ret \in
        {Min({0 - MIN_EXP,
              IF BigLt(ShiftLeft(p, first),
                       BigMul(ShiftLeft(q, 0 - first), TwoTo52))
              THEN first + 1 ELSE first}) :
            first \in {MANTISSA_DIGITS - 1 + BitLength(q) - BitLength(p)}}
        : TRUE

\* Round to nearest, ties to even: the mantissa of quotient `quot` and
\* remainder `rem` by q.
RoundHalfEven(quot, rem, q) ==
    IF BigLt(q, BigDouble(rem))
       \/ (BigDouble(rem) = q /\ ~BigIsEven(quot))
    THEN BigAdd(quot, BigOne)
    ELSE quot

\* The mantissa of p / q at the exponent 0 - s of its lowest bit.
RoundedMantissa(p, q, s) ==
    CHOOSE ret \in
        {RoundHalfEven(d.quot, d.rem, ShiftLeft(q, 0 - s)) :
            d \in {BigDivMod(ShiftLeft(p, s), ShiftLeft(q, 0 - s))}} : TRUE

\* The f64 nearest to sign * p / q, ties to the even mantissa; beyond the
\* largest finite value, the infinity.
Rounded(sign, p, q) ==
    IF q = <<>> THEN (IF p = <<>> THEN NaN ELSE Infinity(sign))
    ELSE IF p = <<>> THEN Zero(sign)
    ELSE IF q = BigOne /\ BigLt(p, TwoTo53)
    THEN [sign |-> sign, num |-> p, den |-> BigOne]
    ELSE CHOOSE ret \in
            {IF 0 - r.s > MAX_EXP \/ (0 - r.s = MAX_EXP /\ r.m = TwoTo53)
             THEN Infinity(sign)
             ELSE IF r.m = <<>> THEN Zero(sign)
             ELSE Dyadic(sign, r.m, 0 - r.s) :
                r \in {[m |-> RoundedMantissa(p, q, s), s |-> s] :
                        s \in {F64Shift(p, q)}}} : TRUE

\* The f64 of an integer below 2^31 in magnitude.
F64(n) ==
    IF n < 0 THEN Rounded(0 - 1, BigOf(0 - n), BigOne)
    ELSE Rounded(1, BigOf(n), BigOne)

\* -x: the sign flips, that of a zero too.
F64Neg(x) == IF IsNaN(x) THEN x ELSE [x EXCEPT !.sign = 0 - @]

\* x == y: NaN equals nothing, the two zeros are equal.
F64Eq(x, y) ==
    /\ ~IsNaN(x)
    /\ ~IsNaN(y)
    /\ (IsZero(x) /\ IsZero(y)) \/ x = y

\* sa * a < sb * b, for signs sa and sb and big numbers a and b.
SignedLt(sa, a, sb, b) ==
    IF a = <<>> /\ b = <<>> THEN FALSE
    ELSE IF sa # sb THEN sa < sb
    ELSE IF sa > 0 THEN BigLt(a, b)
    ELSE BigLt(b, a)

\* x < y: false when either is NaN.
F64Lt(x, y) ==
    /\ ~IsNaN(x)
    /\ ~IsNaN(y)
    /\ IF IsInfinite(x) /\ IsInfinite(y) THEN x.sign < y.sign
       ELSE SignedLt(x.sign, BigMul(x.num, y.den),
                     y.sign, BigMul(y.num, x.den))

\* x + y, rounded: a sum that is zero is -0 only when both terms are -0.
F64Add(x, y) ==
    IF IsNaN(x) \/ IsNaN(y) THEN NaN
    ELSE IF IsInfinite(x) /\ IsInfinite(y)
    THEN (IF x.sign = y.sign THEN x ELSE NaN)
    ELSE IF IsInfinite(x) THEN x
    ELSE IF IsInfinite(y) THEN y
    ELSE CHOOSE ret \in
            {IF x.sign = y.sign
             THEN Rounded(x.sign, BigAdd(t.l, t.r), t.den)
             ELSE IF BigLt(t.l, t.r)
             THEN Rounded(y.sign, BigSub(t.r, t.l), t.den)
             ELSE IF BigLt(t.r, t.l)
             THEN Rounded(x.sign, BigSub(t.l, t.r), t.den)
             ELSE Zero(1) :
                t \in {[l |-> BigMul(x.num, y.den),
                        r |-> BigMul(y.num, x.den),
                        den |-> BigMul(x.den, y.den)]}} : TRUE

F64Sub(x, y) == F64Add(x, F64Neg(y))

\* x * y, rounded: 0 times an infinity is NaN.
F64Mul(x, y) ==
    IF IsNaN(x) \/ IsNaN(y) THEN NaN
    ELSE Rounded(x.sign * y.sign, BigMul(x.num, y.num),
                 BigMul(x.den, y.den))

\* x / y, rounded: 0 / 0 and an infinity over an infinity are NaN.
F64Div(x, y) ==
    IF IsNaN(x) \/ IsNaN(y) THEN NaN
    ELSE Rounded(x.sign * y.sign, BigMul(x.num, y.den),
                 BigMul(x.den, y.num))

\* Value::Number of the f64 x, and of the integer n.
Float(x) == [t |-> "Number", v |-> x]
Number(n) == Float(F64(n))
Bool(b)   == [t |-> "Bool", v |-> b]
Nil       == [t |-> "Nil"]
String(r) == [t |-> "String", v |-> r]

Rc(a, s) == [addr |-> a, text |-> s]

\* Rc::ptr_eq: two references are identical iff they point to one allocation.
PtrEq(r1, r2) == r1.addr = r2.addr

-----------------------------------------------------------------------------
(* StringInterns (src/src/value/string_intern.rs).  The table maps a text  *)
(* to a Weak; live is the set of references with a strong count above 0.   *)

NewInterns == <<>>

Addrs(refs) == {r.addr : r \in refs}

\* Weak::upgrade succeeds iff some Rc to the allocation is still alive.
Upgrades(table, live, s) == s \in DOMAIN table /\ table[s] \in Addrs(live)

\* The allocator returns an address no live string and no Weak occupies.
NewAddr(table, live) ==
    LET used == Addrs(live) \cup Range(table)
    IN  CHOOSE a \in 1..(Cardinality(used) + 1) :
            a \notin used /\ \A b \in 1..(a - 1) : b \in used

get_or_intern_always_new(table, live, s) ==
    LET v == Rc(NewAddr(table, live), s)
    IN  [table |-> [k \in DOMAIN table \cup {s} |->
                        IF k = s THEN v.addr ELSE table[k]],
         ref |-> v]

get_or_intern(table, live, s) ==
    IF Upgrades(table, live, s)
    THEN [table |-> table, ref |-> Rc(table[s], s)]
    ELSE LET v == Rc(NewAddr(table, live), s)
         IN  [table |-> [k \in DOMAIN table \cup {s} |->
                             IF k = s THEN v.addr ELSE table[k]],
              ref |-> v]

clean_inverted(table, live) ==
    LET kept == {k \in DOMAIN table : table[k] \notin Addrs(live)}
    IN  [k \in kept |-> table[k]]

clean(table, live) ==
    LET kept == {k \in DOMAIN table : table[k] \in Addrs(live)}
    IN  [k \in kept |-> table[k]]

-----------------------------------------------------------------------------
(* Instructions (src/src/instructions.rs).  The enum is #[repr(u8)] and    *)
(* starts at 1, so an opcode's byte is its position in the declaration.    *)

OpcodeDeclared ==
    << "Return", "Jump", "JumpIfFalse", "Print", "Pop", "Constant",
       "DefineGlobal", "GetGlobal", "SetGlobal", "GetLocal", "SetLocal",
       "Nil", "True", "False", "Not", "Negate", "Equal", "Greater", "Less",
       "Add", "Subtract", "Multiply", "Divide" >>

\* impl From<Opcode> for u8.
OpcodeByte(name) ==
    CHOOSE b \in 1..Len(OpcodeDeclared) : OpcodeDeclared[b] = name

OPCODE_MAX == OpcodeByte("Divide")

OpcodeTryFrom_below_max(value) ==
    IF value > 0 /\ value < OPCODE_MAX
    THEN [ok |-> OpcodeDeclared[value]]
    ELSE [err |-> value]

\* impl TryFrom<u8> for Opcode.
OpcodeTryFrom(value) ==
    IF value > 0 /\ value <= OPCODE_MAX
    THEN [ok |-> OpcodeDeclared[value]]
    ELSE [err |-> value]

\* vm.rs and disassemble.rs match on Opcode::Loop, which the enum of
\* instructions.rs does not declare, and parser.rs compiles no if, while,
\* for, and or or: src/ holds the VM of a revision with control flow and
\* the instruction set and parser of one without.  A parser or a machine
\* of the revision with control flow carries the field control_flow; one
\* built by Parser::new or VM::new of src/ does not, and behaves as src/.
ControlFlow(x) == "control_flow" \in DOMAIN x
WithControlFlow(x) == x @@ [control_flow |-> TRUE]

\* The byte of Loop.  Where the enum with Loop declares it is not in src/:
\* it is given the byte after OPCODE_MAX, so that the opcodes src/ declares
\* keep the bytes src/ gives them.
LoopByte == OPCODE_MAX + 1

\* TryFrom<u8> for the enum with Loop.
OpcodeTryFromLoop(value) ==
    IF value = LoopByte THEN [ok |-> "Loop"] ELSE OpcodeTryFrom(value)

\* An Op: the opcode's name and, when it has one, its operand.
Op0(name) == [op |-> name]
Op1(name, val) == [op |-> name, arg |-> val]

-----------------------------------------------------------------------------
(* Chunk (src/src/chunk.rs).                                               *)

NewChunk == [code |-> <<>>, constants |-> <<>>, lines |-> <<>>]

write_code_forgets_line(c, byte, line) ==
    [c EXCEPT !.code = Append(@, byte)]

write_code(c, byte, line) ==
    [c EXCEPT !.code = Append(@, byte), !.lines = Append(@, line)]

\* u16::to_be_bytes.
ToBeBytes(value) == << value \div 256, value % 256 >>
ToLeBytes(value) == << value % 256, value \div 256 >>

write_u16_little_endian(c, value, line) ==
    LET bytes == ToLeBytes(value)
    IN  write_code(write_code(c, bytes[1], line), bytes[2], line)

write_u16(c, value, line) ==
    LET bytes == ToBeBytes(value)
    IN  write_code(write_code(c, bytes[1], line), bytes[2], line)

\* The operand each arm of Chunk::write writes after the opcode.
DoubleOps == { "Constant", "DefineGlobal", "GetGlobal", "SetGlobal",
               "GetLocal", "SetLocal" }
U16Ops == { "Jump", "JumpIfFalse" }
SimpleOps == { "Return", "Print", "Pop", "Negate", "Not", "Equal", "Greater",
               "Less", "Add", "Subtract", "Multiply", "Divide", "True",
               "False", "Nil" }

write(c, ins, line) ==
    LET simple == write_code(c, OpcodeByte(ins.op), line)
    IN  CASE ins.op \in DoubleOps -> write_code(simple, ins.arg, line)
          [] ins.op \in U16Ops    -> write_u16(simple, ins.arg, line)
          [] ins.op \in SimpleOps -> simple

\* Op::Loop is missing from the Chunk::write of src/; it is written like the
\* other jumps, an opcode and a big-endian u16.
write_loop(c, val, line) ==
    write_u16(write_code(c, LoopByte, line), val, line)

\* usize -> u8 by try_into().ok().
TryIntoU8(n) == IF n <= U8_MAX THEN Some(n) ELSE None

add_constant(c, value) ==
    LET pushed == [c EXCEPT !.constants = Append(@, value)]
    IN  [chunk |-> pushed, ret |-> TryIntoU8(Len(pushed.constants) - 1)]

\* get_constant_unwrap: None stands for its panic.
get_constant(c, const_idx) ==
    IF const_idx + 1 <= Len(c.constants)
    THEN Some(c.constants[const_idx + 1])
    ELSE None

-----------------------------------------------------------------------------
(* The disassembler (src/src/chunk/disassemble.rs).  Offsets are 0-based   *)
(* as in the source; code[o + 1] is the byte at offset o.                  *)

\* The operand each arm of disassemble_instruction reads after the opcode.
ConstIdxOps == { "Constant", "DefineGlobal", "GetGlobal", "SetGlobal" }
ByteArgOps == { "GetLocal", "SetLocal" }
U16ArgOps == { "Jump", "JumpIfFalse", "Loop" }

\* u16::from_be_bytes.
FromBeBytes(hi, lo) == hi * 256 + lo

\* disassemble_instruction: the instruction read at offset and the offset
\* after it; panic when a byte or a constant it reads is missing.
disassemble_instruction(c, offset) ==
    LET has(o) == o + 1 <= Len(c.code)
        byte(o) == c.code[o + 1]
        panic == [panic |-> TRUE]
    IN  IF ~has(offset) \/ offset + 1 > Len(c.lines) THEN panic
        ELSE LET op == OpcodeTryFrom(byte(offset))
             IN  IF "err" \in DOMAIN op
                 THEN [next |-> offset + 1, unknown |-> op.err]
                 ELSE CASE op.ok \in ConstIdxOps ->
                             IF has(offset + 1)
                                  /\ get_constant(c, byte(offset + 1)) # None
                             THEN [next |-> offset + 2,
                                   ins |-> Op1(op.ok, byte(offset + 1))]
                             ELSE panic
                        [] op.ok \in ByteArgOps ->
                             IF has(offset + 1)
                             THEN [next |-> offset + 2,
                                   ins |-> Op1(op.ok, byte(offset + 1))]
                             ELSE panic
                        [] op.ok \in U16ArgOps ->
                             IF has(offset + 2)
                             THEN [next |-> offset + 3,
                                   ins |-> Op1(op.ok,
                                               FromBeBytes(byte(offset + 1),
                                                           byte(offset + 2)))]
                             ELSE panic
                        [] OTHER -> [next |-> offset + 1, ins |-> Op0(op.ok)]

\* Chunk::disassemble: the instructions read from offset to the end of
\* the code, in order; panic when an instruction's read panics.
RECURSIVE disassemble_from(_, _)
disassemble_from(c, offset) ==
    IF offset >= Len(c.code) THEN [ins |-> <<>>, end |-> offset]
    ELSE LET d == disassemble_instruction(c, offset)
         IN  IF "panic" \in DOMAIN d THEN d
             ELSE LET rest == disassemble_from(c, d.next)
                  IN  IF "panic" \in DOMAIN rest THEN rest
                      ELSE [ins |-> << IF "ins" \in DOMAIN d THEN d.ins
                                       ELSE [unknown |-> d.unknown] >>
                                        \o rest.ins,
                            end |-> rest.end]

disassemble(c) == disassemble_from(c, 0)

-----------------------------------------------------------------------------
(* Tokens (src/src/scanner.rs).                                           *)

Token(kind, lexeme, line) == [kind |-> kind, lexeme |-> lexeme, line |-> line]

Identifier(lexeme) == Token("Identifier", lexeme, 1)

-----------------------------------------------------------------------------
(* The scanner (src/src/scanner.rs).  A source is a sequence of one-       *)
(* character strings; source[i + 1] is chars().nth(i).  A scanner method   *)
(* that changes the scanner yields the scanner it leaves.                  *)

AsciiDigits == {"0", "1", "2", "3", "4", "5", "6", "7", "8", "9"}

AsciiLetters ==
    {"a", "b", "c", "d", "e", "f", "g", "h", "i", "j", "k", "l", "m", "n",
     "o", "p", "q", "r", "s", "t", "u", "v", "w", "x", "y", "z",
     "A", "B", "C", "D", "E", "F", "G", "H", "I", "J", "K", "L", "M", "N",
     "O", "P", "Q", "R", "S", "T", "U", "V", "W", "X", "Y", "Z"}

Scanner(source) == [source |-> source, line |-> 1, start |-> 0, current |-> 0]

ScanErr(line, msg) == [err |-> [line |-> line, msg |-> msg]]

slice(scanner, start, end) == SubSeq(scanner.source, start + 1, end)

make_token(scanner, kind) ==
    Token(kind, slice(scanner, scanner.start, scanner.current), scanner.line)

make_error(scanner, msg) == ScanErr(scanner.line, msg)

peek_char(scanner) ==
    IF scanner.current < Len(scanner.source)
    THEN Some(scanner.source[scanner.current + 1]) ELSE None

peek_next(scanner) ==
    IF scanner.current + 1 < Len(scanner.source)
    THEN Some(scanner.source[scanner.current + 2]) ELSE None

scanner_advance_counts_end(scanner) ==
    IF peek_char(scanner) # None
    THEN [scanner EXCEPT !.current = @ + 1]
    ELSE [scanner EXCEPT !.line = @ + 1]

\* Scanner::advance: the scanner after it; the character it returns is
\* peek_char of the scanner before.
scanner_advance(scanner) ==
    IF peek_char(scanner) # None
    THEN [scanner EXCEPT !.current = @ + 1] ELSE scanner

try_match(scanner, expected) ==
    IF peek_char(scanner) = Some(expected)
    THEN [scanner |-> [scanner EXCEPT !.current = @ + 1], res |-> TRUE]
    ELSE [scanner |-> scanner, res |-> FALSE]

\* The inner loop of skip_whitespace: a comment runs up to the end of the
\* line.
RECURSIVE skip_comment(_)
skip_comment(scanner) ==
    IF peek_char(scanner) \in {None, Some("\n")} THEN scanner
    ELSE CHOOSE ret \in
            {skip_comment(s) : s \in {scanner_advance(scanner)}} : TRUE

RECURSIVE skip_whitespace(_)
skip_whitespace(scanner) ==
    CASE peek_char(scanner) \in {Some(" "), Some("\r"), Some("\t")} ->
            CHOOSE ret \in
                {skip_whitespace(s) : s \in {scanner_advance(scanner)}} : TRUE
      [] peek_char(scanner) = Some("\n") ->
            CHOOSE ret \in
                {skip_whitespace(s) :
                    s \in {scanner_advance(
                            [scanner EXCEPT !.line = @ + 1])}} : TRUE
      [] peek_char(scanner) = Some("/") /\ peek_next(scanner) = Some("/") ->
            CHOOSE ret \in
                {skip_whitespace(s) : s \in {skip_comment(scanner)}} : TRUE
      [] OTHER -> scanner

\* Scanner::string, after the opening quote.
RECURSIVE scan_string(_)
scan_string(scanner) ==
    CHOOSE ret \in
        {CASE peek_char(scanner) = None ->
                [scanner |-> s, res |-> make_error(s, "Unterminated string.")]
           [] peek_char(scanner) = Some("\"") ->
                [scanner |-> s, res |-> make_token(s, "String")]
           [] peek_char(scanner) = Some("\n") ->
                scan_string([s EXCEPT !.line = @ + 1])
           [] OTHER -> scan_string(s) :
            s \in {scanner_advance(scanner)}} : TRUE

is_digit(opt) == opt # None /\ opt.some \in AsciiDigits

RECURSIVE scan_digits(_)
scan_digits(scanner) ==
    IF is_digit(peek_char(scanner))
    THEN CHOOSE ret \in
            {scan_digits(s) : s \in {scanner_advance(scanner)}} : TRUE
    ELSE scanner

\* Scanner::number, after the first digit.
scan_number(scanner) ==
    CHOOSE ret \in
        {[scanner |-> s, res |-> make_token(s, "Number")] :
            s \in {IF peek_char(whole) = Some(".")
                      /\ is_digit(peek_next(whole))
                   THEN scan_digits(scanner_advance(whole))
                   ELSE whole :
                        whole \in {scan_digits(scanner)}}} : TRUE

\* actual.ends_with(expected)
ends_with(actual, expected) ==
    /\ Len(expected) <= Len(actual)
    /\ SubSeq(actual, Len(actual) - Len(expected) + 1, Len(actual)) = expected

match_rest(expected, actual, skip, if_match) ==
    IF Len(actual) - skip = Len(expected) /\ ends_with(actual, expected)
    THEN if_match ELSE "Identifier"

\* The simple_match! macro for the keyword match: the kind, if the word
\* starts with the keyword's first letter.
simple_match(word, match, kind) ==
    IF word[1] = match[1]
    THEN Some(match_rest(Tail(match), word, 1, kind)) ELSE None

\* The simple_match! lines of identifier_type, in the order of the source
\* around the two nested matches.
SimpleMatches ==
    << << << "a", "n", "d" >>, "And" >>,
       << << "c", "l", "a", "s", "s" >>, "Class" >>,
       << << "e", "l", "s", "e" >>, "Else" >>,
       << << "i", "f" >>, "If" >>,
       << << "n", "i", "l" >>, "Nil" >>,
       << << "o", "r" >>, "Or" >>,
       << << "p", "r", "i", "n", "t" >>, "Print" >>,
       << << "r", "e", "t", "u", "r", "n" >>, "Return" >>,
       << << "v", "a", "r" >>, "Var" >>,
       << << "w", "h", "i", "l", "e" >>, "While" >> >>

\* &word[1..2]: a panic when the word has one character.
SliceOutOfRange == [panic |-> "byte index 2 is out of range"]

\* identifier_type: the kind of the word, or the panic.  The first letters
\* of the simple matches differ from each other and from f and t, so the
\* order of the lines does not matter.
identifier_type(scanner) ==
    LET word == slice(scanner, scanner.start, scanner.current)
        hits == {i \in DOMAIN SimpleMatches :
                    simple_match(word, SimpleMatches[i][1],
                                 SimpleMatches[i][2]) # None}
    IN  CASE word[1] = "f" ->
                IF Len(word) < 2 THEN SliceOutOfRange
                ELSE [kind |->
                        CASE word[2] = "a" ->
                                match_rest(<< "l", "s", "e" >>, word, 2,
                                           "False")
                          [] word[2] = "o" ->
                                match_rest(<< "r" >>, word, 2, "For")
                          [] word[2] = "u" ->
                                match_rest(<< "n" >>, word, 2, "Fun")
                          [] OTHER -> "Identifier"]
          [] word[1] = "t" ->
                IF Len(word) < 2 THEN SliceOutOfRange
                ELSE [kind |->
                        CASE word[2] = "h" ->
                                match_rest(<< "i", "s" >>, word, 2, "This")
                          [] word[2] = "r" ->
                                match_rest(<< "u", "e" >>, word, 2, "True")
                          [] OTHER -> "Identifier"]
          [] hits # {} ->
                [kind |-> simple_match(word, SimpleMatches[Min(hits)][1],
                                       SimpleMatches[Min(hits)][2]).some]
          [] OTHER -> [kind |-> "Identifier"]

is_ascii_alphanumeric(opt) ==
    opt # None /\ opt.some \in AsciiLetters \cup AsciiDigits

RECURSIVE scan_word(_)
scan_word(scanner) ==
    IF is_ascii_alphanumeric(peek_char(scanner))
    THEN CHOOSE ret \in
            {scan_word(s) : s \in {scanner_advance(scanner)}} : TRUE
    ELSE scanner

\* Scanner::identifier, after the first letter.
scan_identifier(scanner) ==
    CHOOSE ret \in
        {[scanner |-> s,
          res |-> LET id_type == identifier_type(s)
                  IN  IF "panic" \in DOMAIN id_type THEN id_type
                      ELSE make_token(s, id_type.kind)] :
            s \in {scan_word(scanner)}} : TRUE

\* The kinds of the one-character tokens.
SingleChar ==
    ("(" :> "LeftParen") @@ (")" :> "RightParen") @@ ("{" :> "LeftBrace")
    @@ ("}" :> "RightBrace") @@ (";" :> "Semicolon") @@ ("," :> "Comma")
    @@ ("." :> "Dot") @@ ("-" :> "Minus") @@ ("+" :> "Plus")
    @@ ("/" :> "Slash") @@ ("*" :> "Star")

\* The kinds of the tokens of one character or two: alone, and followed
\* by =.
OneOrTwoChar ==
    ("!" :> << "Bang", "BangEqual" >>) @@ ("=" :> << "Equal", "EqualEqual" >>)
    @@ ("<" :> << "Less", "LessEqual" >>)
    @@ (">" :> << "Greater", "GreaterEqual" >>)

\* The match of scan_token: c is the character advance returned and s the
\* scanner after it.
scan_match(s, c) ==
    CASE c = None -> [scanner |-> s, res |-> make_token(s, "Eof")]
      [] c.some \in DOMAIN SingleChar ->
            [scanner |-> s, res |-> make_token(s, SingleChar[c.some])]
      [] c.some \in DOMAIN OneOrTwoChar ->
            CHOOSE ret \in
                {[scanner |-> m.scanner,
                  res |-> make_token(m.scanner,
                                     OneOrTwoChar[c.some][IF m.res THEN 2
                                                          ELSE 1])] :
                    m \in {try_match(s, "=")}} : TRUE
      [] c.some = "\"" -> scan_string(s)
      [] c.some \in AsciiDigits -> scan_number(s)
      [] c.some \in AsciiLetters -> scan_identifier(s)
      [] OTHER -> [scanner |-> s,
                   res |-> make_error(s, "Unexpected character.")]

\* scan_token: the scanner it leaves and its result: a token, a ScanErr
\* or a panic.
scan_token(scanner) ==
    CHOOSE ret \in
        {scan_match(scanner_advance(s), peek_char(s)) :
            s \in {[t EXCEPT !.start = t.current] :
                        t \in {skip_whitespace(scanner)}}} : TRUE

-----------------------------------------------------------------------------
(* The compiler's local table (src/src/compiler/compiler_state.rs).        *)
(* locals[k + 1] is the Local at index k; the array's slots from           *)
(* local_count on are empty.                                               *)

UINT8_COUNT == 256

NewCompiler == [scope_depth |-> 0, locals |-> <<>>]

Local(name, depth) == [name |-> name, depth |-> depth]

local_count(c) == Len(c.locals)

safe_decrement(val) == IF val = 0 THEN None ELSE Some(val - 1)

\* LocalWalker: the locals its next() yields until it returns None, from
\* index idx down; with a depth it stops at the first initialized local
\* beneath that depth.
LocalWalker(locals, depth, idx) ==
    IF idx = None THEN <<>>
    ELSE LET beneath == {k \in 0..idx.some :
                            /\ locals[k + 1].depth # None
                            /\ depth # None
                            /\ locals[k + 1].depth.some < depth.some}
             last == IF beneath = {} THEN 0 ELSE Max(beneath) + 1
         IN  [i \in 1..(idx.some - last + 1) |-> locals[idx.some + 2 - i]]

iter_same_depth_locals(c) ==
    LocalWalker(c.locals, Some(c.scope_depth), safe_decrement(local_count(c)))

iter_locals(c) == LocalWalker(c.locals, None, safe_decrement(local_count(c)))

begin_scope(c) == [c EXCEPT !.scope_depth = @ + 1]

peek_local(c) ==
    IF safe_decrement(local_count(c)) = None THEN None
    ELSE Some(c.locals[local_count(c)])

pop_local(c) == [c EXCEPT !.locals = SubSeq(@, 1, Len(@) - 1)]

\* end_scope: decrements scope_depth, then pops locals from the top until
\* the table is empty or the top local is no deeper than scope_depth;
\* panic when the top local is uninitialized.
end_scope(c) ==
    LET depth == c.scope_depth - 1
        stays == {k \in 1..local_count(c) :
                    \/ c.locals[k].depth = None
                    \/ c.locals[k].depth.some <= depth}
        top == IF stays = {} THEN 0 ELSE Max(stays)
    IN  IF top > 0 /\ c.locals[top].depth = None THEN [panic |-> TRUE]
        ELSE [compiler |-> [scope_depth |-> depth,
                            locals |-> SubSeq(c.locals, 1, top)],
              count |-> local_count(c) - top]

TooManyLocals == "Too many local variables in function."
AlreadyDeclared == "Already a variable with this name in this scope."

add_local_any_depth(c, name) ==
    IF local_count(c) = UINT8_COUNT
    THEN [compiler |-> c, err |-> TooManyLocals]
    ELSE IF LET walk == iter_locals(c)
            IN  \E i \in DOMAIN walk : walk[i].name.lexeme = name.lexeme
    THEN [compiler |-> c, err |-> AlreadyDeclared]
    ELSE [compiler |-> [c EXCEPT !.locals = Append(@, Local(name, None))],
          ok |-> TRUE]

add_local(c, name) ==
    IF local_count(c) = UINT8_COUNT
    THEN [compiler |-> c, err |-> TooManyLocals]
    ELSE IF LET walk == iter_same_depth_locals(c)
            IN  \E i \in DOMAIN walk : walk[i].name.lexeme = name.lexeme
    THEN [compiler |-> c, err |-> AlreadyDeclared]
    ELSE [compiler |-> [c EXCEPT !.locals = Append(@, Local(name, None))],
          ok |-> TRUE]

\* mark_initialized: panic when there is no local.
mark_initialized(c) ==
    IF peek_local(c) = None THEN [panic |-> TRUE]
    ELSE [compiler |->
            [c EXCEPT !.locals[local_count(c)].depth = Some(c.scope_depth)]]

\* resolve_local: the position, in the walk from the newest local down, of
\* the first local with the name's lexeme, as u8, and whether it is
\* initialized.
resolve_local(c, name) ==
    LET walk == iter_locals(c)
        found == {i \in DOMAIN walk : walk[i].name.lexeme = name.lexeme}
    IN  IF found = {} THEN None
        ELSE LET i == Min(found)
             IN  Some([slot |-> (i - 1) % (U8_MAX + 1),
                       initialized |-> walk[i].depth # None])

-----------------------------------------------------------------------------
(* The parser API (src/src/compiler.rs).  The parser state p is the Parser *)
(* struct; p.errors is what it has written to stderr, and p.roots are the  *)
(* strings the VM holds while the compiler runs.                           *)
(*                                                                         *)
(* The statements of a method run one after another, each on the state the *)
(* one before left.  {g(b) : b \in {f(a)}} holds g of the value of f(a),   *)
(* computed once and before g; CHOOSE ret \in {...} : TRUE is the element  *)
(* of such a singleton.                                                    *)

\* scan_token reads nothing but the scanner, so the results the parser
\* pulls one at a time are those of scanning the source from its start:
\* the results of scan_token up to the Eof token or a panic.
RECURSIVE scan_all(_)
scan_all(scanner) ==
    CHOOSE ret \in
        {IF "panic" \in DOMAIN r.res \/ ("kind" \in DOMAIN r.res
                                          /\ r.res.kind = "Eof")
         THEN << r.res >>
         ELSE << r.res >> \o scan_all(r.scanner) :
            r \in {scan_token(scanner)}} : TRUE

\* The scanner seen from the parser: the results of its scan_token calls
\* and the number of those the parser has pulled; the last result is
\* returned again on every further call.
Scanned(scanner) == [results |-> scan_all(scanner), pos |-> 1]

next_scan(scanned) ==
    [scanner |-> [scanned EXCEPT
                    !.pos = IF @ < Len(scanned.results) THEN @ + 1 ELSE @],
     res |-> scanned.results[scanned.pos]]

stub_token == Token("Eof", <<>>, 0)

\* The strings of a sequence of values.
StringRefs(values) ==
    {values[i].v : i \in {k \in DOMAIN values : values[k].t = "String"}}

\* The strings alive while the compiler runs: the VM's and the constants
\* of the chunk under construction.
CompileLive(p) == p.roots \cup StringRefs(p.chunk.constants)

assert_prev(p) == p.previous.some

\* A panic unwinds through every caller and ends the compilation: the
\* parser is left as it is, with p.panicked set, and what would have run
\* after the panic changes nothing.
Panicked(p) == [p EXCEPT !.panicked = TRUE]

print_err_in_panic(p, err, line, at) ==
    IF p.panicked THEN p
    ELSE [p EXCEPT !.errors = Append(@, [line |-> line, at |-> at,
                                         msg |-> err]),
                   !.had_error = TRUE,
                   !.panic_mode = TRUE]

print_err(p, err, line, at) ==
    IF p.panicked \/ p.panic_mode THEN p
    ELSE [p EXCEPT !.errors = Append(@, [line |-> line, at |-> at,
                                         msg |-> err]),
                   !.had_error = TRUE,
                   !.panic_mode = TRUE]

error_at_token(p, err, token) ==
    print_err(p, err, token.line,
              IF token.kind = "Eof" THEN Some([end |-> TRUE])
              ELSE Some([lexeme |-> token.lexeme]))

error_at_current(p, err) == error_at_token(p, err, p.current)

error(p, err) == error_at_token(p, err, assert_prev(p))

\* The loop of advance: scans, reporting every ScanErr, up to the next
\* token or a panic of the scanner.
RECURSIVE advance_loop(_)
advance_loop(p) ==
    CHOOSE ret \in
        {CASE "panic" \in DOMAIN r.res ->
                [p |-> Panicked(p), new_token |-> p.current]
           [] "err" \in DOMAIN r.res ->
                advance_loop(print_err([p EXCEPT !.scanner = r.scanner],
                                       r.res.err.msg, r.res.err.line, None))
           [] OTHER ->
                [p |-> [p EXCEPT !.scanner = r.scanner],
                 new_token |-> r.res] :
            r \in {next_scan(p.scanner)}} : TRUE

advance(p) ==
    IF p.panicked THEN p
    ELSE CHOOSE ret \in
            {IF r.p.panicked THEN r.p
             ELSE [r.p EXCEPT !.previous = Some(p.current),
                              !.current = r.new_token] :
                r \in {advance_loop(p)}} : TRUE

NewParser(scanner, interns, roots) ==
    advance([scanner |-> scanner,
             chunk |-> NewChunk,
             previous |-> None,
             current |-> stub_token,
             had_error |-> FALSE,
             panic_mode |-> FALSE,
             strings |-> interns,
             compiler |-> NewCompiler,
             errors |-> <<>>,
             panicked |-> FALSE,
             roots |-> roots])

check(p, expected) == p.current.kind = expected

consume(p, expected, err) ==
    IF p.current.kind = expected THEN advance(p)
    ELSE error_at_current(p, err)

match_t(p, expected) ==
    [p |-> IF check(p, expected) THEN advance(p) ELSE p,
     ret |-> check(p, expected)]

SynchronizeAt == { "Class", "Fun", "Var", "For", "If", "While", "Print",
                   "Return" }

RECURSIVE synchronize_loop(_)
synchronize_loop(p) ==
    IF p.panicked THEN p
    ELSE IF check(p, "Eof") THEN advance(p)
    ELSE IF assert_prev(p).kind = "Semicolon" THEN p
    ELSE IF p.current.kind \in SynchronizeAt THEN p
    ELSE CHOOSE ret \in {synchronize_loop(q) : q \in {advance(p)}} : TRUE

synchronize(p) ==
    IF p.panicked THEN p
    ELSE synchronize_loop([p EXCEPT !.panic_mode = FALSE])

emit_ins(p, ins) ==
    IF p.panicked THEN p
    ELSE [p EXCEPT !.chunk = write(p.chunk, ins, assert_prev(p).line)]

TooManyConstants == "Too many constants in one chunk."

make_constant(p, val) ==
    IF p.panicked THEN [p |-> p, ret |-> None]
    ELSE CHOOSE ret \in
            {IF res.ret # None
             THEN [p |-> [p EXCEPT !.chunk = res.chunk], ret |-> res.ret]
             ELSE [p |-> error([p EXCEPT !.chunk = res.chunk],
                               TooManyConstants),
                   ret |-> None] :
                res \in {add_constant(p.chunk, val)}} : TRUE

emit_constant(p, val) ==
    CHOOSE ret \in
        {IF constant.ret # None
         THEN emit_ins(constant.p, Op1("Constant", constant.ret.some))
         ELSE constant.p :
            constant \in {make_constant(p, val)}} : TRUE

\* StringInterns::build_string_value on the parser's interner.
build_string_value(p, s) ==
    IF p.panicked THEN [p |-> p, val |-> Nil]
    ELSE CHOOSE ret \in
            {[p |-> [p EXCEPT !.strings = r.table], val |-> String(r.ref)] :
                r \in {get_or_intern(p.strings, CompileLive(p), s)}} : TRUE

identifier_constant(p) ==
    CHOOSE ret \in
        {make_constant(val.p, val.val) :
            val \in {build_string_value(p, assert_prev(p).lexeme)}} : TRUE

-----------------------------------------------------------------------------
(* Expressions (src/src/compiler/parser.rs).                               *)

\* enum ParsePrecedence, lowest first.
ParsePrecedence == << "Assignment", "Or", "And", "Equality", "Comparison",
                      "Term", "Factor", "Unary", "Call", "Primary" >>

\* The discriminant that orders ParsePrecedence.
PrecedenceOrd(precedence) ==
    CHOOSE i \in DOMAIN ParsePrecedence : ParsePrecedence[i] = precedence

PrecedenceNext(precedence) ==
    IF precedence = "Primary" THEN "Primary"
    ELSE ParsePrecedence[PrecedenceOrd(precedence) + 1]

ParseRule(prefix, infix, precedence) ==
    [prefix |-> prefix, infix |-> infix, precedence |-> precedence]

\* The rules of `and` and `or`: infix handlers at their own precedence.
logical_rule(kind) ==
    IF kind = "And" THEN ParseRule(None, Some("and_"), Some("And"))
    ELSE ParseRule(None, Some("or_"), Some("Or"))

get_rule(kind) ==
    CASE kind = "LeftParen" -> ParseRule(Some("grouping"), None, None)
      [] kind = "Minus" ->
            ParseRule(Some("unary"), Some("binary"), Some("Term"))
      [] kind = "Plus" -> ParseRule(None, Some("binary"), Some("Term"))
      [] kind \in {"Slash", "Star"} ->
            ParseRule(None, Some("binary"), Some("Factor"))
      [] kind = "Bang" -> ParseRule(Some("unary"), None, None)
      [] kind \in {"BangEqual", "EqualEqual"} ->
            ParseRule(None, Some("binary"), Some("Equality"))
      [] kind \in {"Less", "Greater", "LessEqual", "GreaterEqual"} ->
            ParseRule(None, Some("binary"), Some("Comparison"))
      [] kind \in {"True", "False", "Nil"} ->
            ParseRule(Some("literal"), None, None)
      [] kind = "Number" -> ParseRule(Some("number"), None, None)
      [] kind = "String" -> ParseRule(Some("string"), None, None)
      [] kind = "Identifier" -> ParseRule(Some("variable"), None, None)
      [] OTHER -> ParseRule(None, None, None)

DigitValue(ch) == CHOOSE d \in 0..9 : Decimal(d) = << ch >>

\* The words str::parse::<f64> reads in any case.
UpperCase(ch) ==
    CASE ch = "a" -> "A" [] ch = "f" -> "F" [] ch = "i" -> "I"
      [] ch = "n" -> "N" [] ch = "t" -> "T" [] ch = "y" -> "Y"

EqIgnoreCase(lexeme, word) ==
    /\ Len(lexeme) = Len(word)
    /\ \A i \in DOMAIN word :
            lexeme[i] = word[i] \/ lexeme[i] = UpperCase(word[i])

IsInfWord(lexeme) ==
    \/ EqIgnoreCase(lexeme, << "i", "n", "f" >>)
    \/ EqIgnoreCase(lexeme, << "i", "n", "f", "i", "n", "i", "t", "y" >>)

IsNanWord(lexeme) == EqIgnoreCase(lexeme, << "n", "a", "n" >>)

\* Digits with at most one '.' among them, and at least one digit.
IsDecimalWord(lexeme) ==
    /\ \A i \in DOMAIN lexeme : lexeme[i] \in AsciiDigits \union {"."}
    /\ Cardinality({i \in DOMAIN lexeme : lexeme[i] = "."}) <= 1
    /\ \E i \in DOMAIN lexeme : lexeme[i] \in AsciiDigits

\* Whether str::parse::<f64> is Ok on the lexeme of a token.
ParsesF64(lexeme) ==
    IsDecimalWord(lexeme) \/ IsInfWord(lexeme) \/ IsNanWord(lexeme)

\* str::parse::<f64> where it is Ok: on digits, then possibly '.' and
\* digits, the f64 nearest to the digits over the power of ten of those
\* after the point.
ParseF64(lexeme) ==
    LET dots == {i \in DOMAIN lexeme : lexeme[i] = "."}
        dot == IF dots = {} THEN Len(lexeme) + 1 ELSE Min(dots)
        chars == SubSeq(lexeme, 1, dot - 1)
                    \o SubSeq(lexeme, dot + 1, Len(lexeme))
        digits == [i \in DOMAIN chars |-> DigitValue(chars[i])]
    IN  CASE IsInfWord(lexeme) -> Infinity(1)
          [] IsNanWord(lexeme) -> NaN
          [] OTHER ->
                Rounded(1, BigOfDecimal(digits),
                        BigPow10(IF dots = {} THEN 0 ELSE Len(lexeme) - dot))

\* number: the expect panics on a lexeme that is no f64.
number(p, can_assign) ==
    IF p.panicked THEN p
    ELSE IF ~ParsesF64(assert_prev(p).lexeme) THEN Panicked(p)
    ELSE emit_constant(p, Float(ParseF64(assert_prev(p).lexeme)))

\* string: the slice between the quotes panics on a lexeme of less than
\* two characters.
string(p, can_assign) ==
    LET raw_str == assert_prev(p).lexeme
    IN  IF p.panicked THEN p
        ELSE IF Len(raw_str) < 2 THEN Panicked(p)
        ELSE CHOOSE ret \in
                {emit_constant(val.p, val.val) :
                    val \in {build_string_value(
                                p, SubSeq(raw_str, 2, Len(raw_str) - 1))}}
                : TRUE

literal(p, can_assign) ==
    IF p.panicked THEN p
    ELSE IF assert_prev(p).kind \notin {"True", "False", "Nil"}
    THEN Panicked(p)
    ELSE emit_ins(p, CASE assert_prev(p).kind = "True" -> Op0("True")
                       [] assert_prev(p).kind = "False" -> Op0("False")
                       [] assert_prev(p).kind = "Nil" -> Op0("Nil"))

JumpPlaceholder == 65535
TooMuchCode == "Too much code to jump over."

\* emit_jump: the op with a placeholder operand; returns the offset just
\* past the operand.
emit_jump(p, op) ==
    CHOOSE ret \in
        {[p |-> q, ret |-> Len(q.chunk.code)] :
            q \in {emit_ins(p, Op1(op, JumpPlaceholder))}} : TRUE

\* patch_jump: stores the distance from `from` to the end of the code,
\* big-endian, in the two bytes before offset `from`.
patch_jump_from_opcode(p, from) ==
    LET offset == Len(p.chunk.code) - from + 3
        bytes == ToBeBytes(offset)
    IN  IF p.panicked THEN p
        ELSE IF offset > U16_MAX THEN error(p, TooMuchCode)
        ELSE [p EXCEPT !.chunk.code[from - 1] = bytes[1],
                       !.chunk.code[from] = bytes[2]]

patch_jump(p, from) ==
    LET offset == Len(p.chunk.code) - from
        bytes == ToBeBytes(offset)
    IN  IF p.panicked THEN p
        ELSE IF offset > U16_MAX THEN error(p, TooMuchCode)
        ELSE [p EXCEPT !.chunk.code[from - 1] = bytes[1],
                       !.chunk.code[from] = bytes[2]]

\* emit_loop: Loop with the distance from target to the Loop instruction
\* as its operand.  run moves ip back by the operand and the 3 bytes of the
\* instruction it has just read (vm.rs:186), which takes it to target: the
\* loops of tests/examples.rs (control_flow) then print 0, 1, 2.  The
\* sentence of the spec that adds the 3 bytes to the operand as well is
\* emit_loop_counts_instruction.
emit_loop_counts_instruction(p, target) ==
    LET offset == Len(p.chunk.code) - target + 3
    IN  IF p.panicked THEN p
        ELSE IF offset > U16_MAX THEN error(p, TooMuchCode)
        ELSE [p EXCEPT
                !.chunk = write_loop(@, offset, assert_prev(p).line)]

emit_loop(p, target) ==
    LET offset == Len(p.chunk.code) - target
    IN  IF p.panicked THEN p
        ELSE IF offset > U16_MAX THEN error(p, TooMuchCode)
        ELSE [p EXCEPT
                !.chunk = write_loop(@, offset, assert_prev(p).line)]

RECURSIVE parse_precedence(_, _)
RECURSIVE parse_infix(_, _, _)
RECURSIVE call_rule(_, _, _)

expression(p) == parse_precedence(p, "Assignment")

grouping(p, can_assign) ==
    CHOOSE ret \in
        {consume(q, "RightParen", "Expected ')' after expression.") :
            q \in {expression(p)}} : TRUE

unary(p, can_assign) ==
    LET kind == assert_prev(p).kind
    IN  IF kind \notin {"Minus", "Bang"}
        THEN error(p, "Expected unary operator.")
        ELSE CHOOSE ret \in
                {emit_ins(q, IF kind = "Minus" THEN Op0("Negate")
                             ELSE Op0("Not")) :
                    q \in {parse_precedence(p, "Unary")}} : TRUE

\* binary: the expect panics on a token without a precedence.
binary(p, can_assign) ==
    LET operator == assert_prev(p).kind
        precedence == get_rule(operator).precedence.some
    IN  IF p.panicked THEN p
        ELSE IF get_rule(operator).precedence = None THEN Panicked(p)
        ELSE CHOOSE ret \in
            {IF operator \in {"GreaterEqual", "LessEqual", "BangEqual"}
             THEN emit_ins(emitted, Op0("Not"))
             ELSE emitted :
                emitted \in
                    {emit_ins(q,
                        CASE operator = "Plus" -> Op0("Add")
                          [] operator = "Minus" -> Op0("Subtract")
                          [] operator = "Star" -> Op0("Multiply")
                          [] operator = "Slash" -> Op0("Divide")
                          [] operator \in {"Less", "GreaterEqual"} ->
                                Op0("Less")
                          [] operator \in {"Greater", "LessEqual"} ->
                                Op0("Greater")
                          [] operator \in {"EqualEqual", "BangEqual"} ->
                                Op0("Equal")) :
                        q \in {parse_precedence(
                                p, PrecedenceNext(precedence))}}} : TRUE

\* The rest of named_variable, with the ops the name resolved to.
assign_or_read(p, can_assign, set_op, get_op) ==
    IF can_assign /\ check(p, "Equal")
    THEN CHOOSE ret \in
            {emit_ins(q, set_op) : q \in {expression(advance(p))}} : TRUE
    ELSE emit_ins(p, get_op)

\* named_variable when no local has the name: the global of that name.
global_variable(p, can_assign) ==
    CHOOSE ret \in
        {IF global.ret # None
         THEN assign_or_read(global.p, can_assign,
                             Op1("SetGlobal", global.ret.some),
                             Op1("GetGlobal", global.ret.some))
         ELSE assign_or_read(global.p, can_assign, Op0("Pop"), Op0("Nil")) :
            global \in {identifier_constant(p)}} : TRUE

named_variable_reads_uninitialized(p, can_assign) ==
    CHOOSE ret \in
        {IF local = None THEN global_variable(p, can_assign)
         ELSE assign_or_read(p, can_assign,
                             Op1("SetLocal", local.some.slot),
                             Op1("GetLocal", local.some.slot)) :
            local \in {resolve_local(p.compiler, assert_prev(p))}} : TRUE

named_variable(p, can_assign) ==
    CHOOSE ret \in
        {IF local = None THEN global_variable(p, can_assign)
         ELSE assign_or_read(
                IF ~local.some.initialized
                THEN error(p, "Can't read local variable in its own initializer.")
                ELSE p,
                can_assign,
                Op1("SetLocal", local.some.slot),
                Op1("GetLocal", local.some.slot)) :
            local \in {resolve_local(p.compiler, assert_prev(p))}} : TRUE

variable(p, can_assign) == named_variable(p, can_assign)

\* and: JumpIfFalse over the right operand, which replaces the left one.
and_keeps_left(p, can_assign) ==
    CHOOSE ret \in
        {CHOOSE patched \in
            {patch_jump(q, jend.ret) :
                q \in {parse_precedence(jend.p, "And")}} : TRUE :
            jend \in {emit_jump(p, "JumpIfFalse")}} : TRUE

and_(p, can_assign) ==
    CHOOSE ret \in
        {CHOOSE patched \in
            {patch_jump(q, jend.ret) :
                q \in {parse_precedence(emit_ins(jend.p, Op0("Pop")),
                                        "And")}} : TRUE :
            jend \in {emit_jump(p, "JumpIfFalse")}} : TRUE

\* or: a falsey left operand jumps to the right one, a truthy one past it.
or_(p, can_assign) ==
    CHOOSE ret \in
        {CHOOSE patched \in
            {patch_jump(q, j.end.ret) :
                q \in {parse_precedence(
                        emit_ins(patch_jump(j.end.p, j.else_jump),
                                 Op0("Pop")),
                        "Or")}} : TRUE :
            j \in {[else_jump |-> jelse.ret,
                    end |-> emit_jump(jelse.p, "Jump")] :
                    jelse \in {emit_jump(p, "JumpIfFalse")}}} : TRUE

\* The rule of an infix position: get_rule, and with control flow the rules
\* of `and` and `or`.
infix_rule(p, kind) ==
    IF ControlFlow(p) /\ kind \in {"And", "Or"} THEN logical_rule(kind)
    ELSE get_rule(kind)

\* A ParseFn called through its rule.
call_rule(fn, p, can_assign) ==
    CASE fn = "grouping" -> grouping(p, can_assign)
      [] fn = "unary" -> unary(p, can_assign)
      [] fn = "binary" -> binary(p, can_assign)
      [] fn = "literal" -> literal(p, can_assign)
      [] fn = "number" -> number(p, can_assign)
      [] fn = "string" -> string(p, can_assign)
      [] fn = "variable" -> variable(p, can_assign)
      [] fn = "and_" -> and_(p, can_assign)
      [] fn = "or_" -> or_(p, can_assign)

\* The while loop of parse_precedence: infix rules at or above precedence.
parse_infix(p, precedence, can_assign) ==
    LET rule_precedence == infix_rule(p, p.current.kind).precedence
    IN  IF p.panicked THEN p
        ELSE IF rule_precedence # None
           /\ PrecedenceOrd(precedence) <= PrecedenceOrd(rule_precedence.some)
        THEN CHOOSE ret \in
                {parse_infix(r, precedence, can_assign) :
                    r \in {IF q.panicked THEN q
                           ELSE call_rule(
                                infix_rule(q, assert_prev(q).kind).infix.some,
                                q, can_assign) :
                            q \in {advance(p)}}} : TRUE
        ELSE p

invalid_assignment_accepted(p, can_assign) ==
    IF can_assign /\ check(p, "Equal") THEN advance(p) ELSE p

\* The end of parse_precedence: an `=` nothing has consumed.
invalid_assignment(p, can_assign) ==
    IF can_assign /\ check(p, "Equal")
    THEN error(advance(p), "Invalid assignment target.")
    ELSE p

\* parse_precedence after its advance.
parse_prefix(p, precedence) ==
    LET prefix == get_rule(assert_prev(p).kind).prefix
        can_assign == PrecedenceOrd(precedence) <= PrecedenceOrd("Assignment")
    IN  IF p.panicked THEN p
        ELSE IF prefix = None THEN error(p, "Expect expression.")
        ELSE CHOOSE ret \in
                {invalid_assignment(r, can_assign) :
                    r \in {parse_infix(q, precedence, can_assign) :
                            q \in {call_rule(prefix.some, p, can_assign)}}}
                : TRUE

parse_precedence_peeks(p, precedence) ==
    IF p.panicked THEN p
    ELSE IF get_rule(p.current.kind).prefix = None
    THEN error_at_current(p, "Expect expression.")
    ELSE CHOOSE ret \in {parse_prefix(q, precedence) : q \in {advance(p)}}
            : TRUE

parse_precedence(p, precedence) ==
    IF p.panicked THEN p
    ELSE CHOOSE ret \in {parse_prefix(q, precedence) : q \in {advance(p)}}
            : TRUE

-----------------------------------------------------------------------------
(* Statements (src/src/compiler/parser.rs) and compile                     *)
(* (src/src/compiler.rs).                                                  *)

RECURSIVE emit_pops(_, _)
emit_pops(p, removed_count) ==
    IF removed_count = 0 THEN p
    ELSE emit_pops(emit_ins(p, Op0("Pop")), removed_count - 1)

\* Parser::end_scope: one Pop for every local that goes out of scope.
parser_end_scope_pops_one_more(p) ==
    IF p.panicked THEN p
    ELSE CHOOSE ret \in
            {IF "panic" \in DOMAIN r THEN Panicked(p)
             ELSE emit_pops([p EXCEPT !.compiler = r.compiler], r.count + 1) :
                r \in {end_scope(p.compiler)}} : TRUE

parser_end_scope(p) ==
    IF p.panicked THEN p
    ELSE CHOOSE ret \in
            {IF "panic" \in DOMAIN r THEN Panicked(p)
             ELSE emit_pops([p EXCEPT !.compiler = r.compiler], r.count) :
                r \in {end_scope(p.compiler)}} : TRUE

\* Compiler::begin_scope on the parser's compiler.
parser_begin_scope(p) ==
    IF p.panicked THEN p ELSE [p EXCEPT !.compiler = begin_scope(@)]

declare_variable(p) ==
    IF p.panicked \/ p.compiler.scope_depth = 0 THEN p
    ELSE CHOOSE ret \in
            {IF "err" \in DOMAIN r
             THEN error([p EXCEPT !.compiler = r.compiler], r.err)
             ELSE [p EXCEPT !.compiler = r.compiler] :
                r \in {add_local(p.compiler, assert_prev(p))}} : TRUE

parse_variable(p, err) ==
    CHOOSE ret \in
        {IF q.compiler.scope_depth > 0 THEN [p |-> q, ret |-> None]
         ELSE identifier_constant(q) :
            q \in {declare_variable(consume(p, "Identifier", err))}} : TRUE

define_variable(p, maybe_global_idx) ==
    IF p.panicked THEN p
    ELSE IF p.compiler.scope_depth > 0
    THEN CHOOSE ret \in
            {IF "panic" \in DOMAIN r THEN Panicked(p)
             ELSE [p EXCEPT !.compiler = r.compiler] :
                r \in {mark_initialized(p.compiler)}} : TRUE
    ELSE emit_ins(p, IF maybe_global_idx # None
                     THEN Op1("DefineGlobal", maybe_global_idx.some)
                     ELSE Op0("Pop"))

\* The initializer of a variable declaration, or Nil.
initializer(p) ==
    IF check(p, "Equal") THEN expression(advance(p))
    ELSE emit_ins(p, Op0("Nil"))

variable_declaration(p) ==
    CHOOSE ret \in
        {CHOOSE defined \in
            {define_variable(
                consume(q, "Semicolon", "Expect ';' after assignment."),
                variable_constant.ret) :
                q \in {initializer(variable_constant.p)}} : TRUE :
            variable_constant \in {parse_variable(p, "Expect variable name.")}}
        : TRUE

print_statement(p) ==
    CHOOSE ret \in
        {emit_ins(consume(q, "Semicolon", "Expect ';' after value."),
                  Op0("Print")) :
            q \in {expression(p)}} : TRUE

expression_statement(p) ==
    CHOOSE ret \in
        {emit_ins(consume(q, "Semicolon", "Expect ';' after expression."),
                  Op0("Pop")) :
            q \in {expression(p)}} : TRUE

RECURSIVE declaration(_)
RECURSIVE statement(_)

\* The while loop of block.
RECURSIVE block_loop(_)
block_loop(p) ==
    IF p.panicked THEN p
    ELSE IF ~check(p, "RightBrace") /\ ~check(p, "Eof")
    THEN CHOOSE ret \in {block_loop(q) : q \in {declaration(p)}} : TRUE
    ELSE p

block(p) ==
    CHOOSE ret \in
        {consume(q, "RightBrace", "Expect '}' after block.") :
            q \in {block_loop(p)}} : TRUE

\* A condition in parentheses.
condition(p, keyword_err) ==
    CHOOSE ret \in
        {consume(q, "RightParen", "Expect ')' after condition.") :
            q \in {expression(consume(p, "LeftParen", keyword_err))}} : TRUE

\* The else branch, if there is one, and the end of the jump over it.
else_branch(p, else_jump) ==
    CHOOSE ret \in
        {patch_jump(q, else_jump) :
            q \in {IF check(p, "Else") THEN statement(advance(p))
                   ELSE p}} : TRUE

\* The then branch: jumped over when the condition is falsey.
then_branch(p, then_jump) ==
    CHOOSE ret \in
        {else_branch(emit_ins(patch_jump(j.p, then_jump), Op0("Pop")),
                     j.ret) :
            j \in {emit_jump(q, "Jump") :
                    q \in {statement(emit_ins(p, Op0("Pop")))}}} : TRUE

\* if (cond) then else?, after the `if`.
if_statement(p) ==
    CHOOSE ret \in
        {then_branch(j.p, j.ret) :
            j \in {emit_jump(q, "JumpIfFalse") :
                    q \in {condition(p, "Expect '(' after 'if'.")}}} : TRUE

\* The body of while: loops back to loop_start; exit_jump leaves the loop.
while_body_keeps_condition(p, loop_start, exit_jump) ==
    CHOOSE ret \in
        {patch_jump(emit_loop(q, loop_start), exit_jump) :
            q \in {statement(emit_ins(p, Op0("Pop")))}} : TRUE

while_body(p, loop_start, exit_jump) ==
    CHOOSE ret \in
        {emit_ins(patch_jump(emit_loop(q, loop_start), exit_jump),
                  Op0("Pop")) :
            q \in {statement(emit_ins(p, Op0("Pop")))}} : TRUE

\* while (cond) body, after the `while`.
while_statement(p) ==
    CHOOSE ret \in
        {while_body(j.p, Len(p.chunk.code), j.ret) :
            j \in {emit_jump(q, "JumpIfFalse") :
                    q \in {condition(p, "Expect '(' after 'while'.")}}}
        : TRUE

\* The initializer clause of for: nothing, a declaration or an expression.
for_initializer(p) ==
    IF check(p, "Semicolon") THEN advance(p)
    ELSE IF check(p, "Var") THEN variable_declaration(advance(p))
    ELSE expression_statement(p)

\* The condition clause of for: the exit jump, if there is a condition.
for_condition(p) ==
    IF check(p, "Semicolon") THEN [p |-> advance(p), ret |-> None]
    ELSE CHOOSE ret \in
            {[p |-> emit_ins(j.p, Op0("Pop")), ret |-> Some(j.ret)] :
                j \in {emit_jump(
                        consume(q, "Semicolon",
                                "Expect ';' after loop condition."),
                        "JumpIfFalse") :
                        q \in {expression(p)}}} : TRUE

\* The step clause of for after the jump over it: run after the body.
for_increment(p, loop_start, body_jump) ==
    CHOOSE ret \in
        {patch_jump(
            emit_loop(consume(emit_ins(q, Op0("Pop")), "RightParen",
                              "Expect ')' after for clauses."),
                      loop_start),
            body_jump) :
            q \in {expression(p)}} : TRUE

\* The step clause of for; returns where the body loops back to.
for_step(p, loop_start) ==
    IF check(p, "RightParen") THEN [p |-> advance(p), ret |-> loop_start]
    ELSE CHOOSE ret \in
            {[p |-> for_increment(j.p, loop_start, j.ret),
              ret |-> Len(j.p.chunk.code)] :
                j \in {emit_jump(p, "Jump")}} : TRUE

\* The body of for: loops back to loop_start, then the end of the scope.
for_body(p, loop_start, exit_jump) ==
    CHOOSE ret \in
        {parser_end_scope(
            IF exit_jump = None THEN emit_loop(q, loop_start)
            ELSE emit_ins(patch_jump(emit_loop(q, loop_start),
                                     exit_jump.some),
                          Op0("Pop"))) :
            q \in {statement(p)}} : TRUE

\* The clauses of for, after the initializer.
for_clauses(p) ==
    CHOOSE ret \in
        {CHOOSE looped \in
            {for_body(step.p, step.ret, cond.ret) :
                step \in {for_step(cond.p, Len(p.chunk.code))}} : TRUE :
            cond \in {for_condition(p)}} : TRUE

\* for (init; cond; step) body, after the `for`.
for_statement(p) ==
    CHOOSE ret \in
        {for_clauses(q) :
            q \in {for_initializer(
                    consume(parser_begin_scope(p),
                            "LeftParen", "Expect '(' after 'for'."))}} : TRUE

\* The statements that branch: if, while and for.
control_statement(p) ==
    CASE check(p, "If") -> if_statement(advance(p))
      [] check(p, "While") -> while_statement(advance(p))
      [] check(p, "For") -> for_statement(advance(p))

statement(p) ==
    CASE p.panicked -> p
      [] check(p, "Print") -> print_statement(advance(p))
      [] ControlFlow(p) /\ p.current.kind \in {"If", "While", "For"} ->
            control_statement(p)
      [] check(p, "LeftBrace") ->
            CHOOSE ret \in
                {parser_end_scope(q) :
                    q \in {block(parser_begin_scope(advance(p)))}} : TRUE
      [] OTHER -> expression_statement(p)

\* The end of declaration: synchronize after an error.
recover(p) == IF p.panic_mode THEN synchronize(p) ELSE p

declaration(p) ==
    IF p.panicked THEN p
    ELSE CHOOSE ret \in
            {recover(q) :
                q \in {IF check(p, "Var")
                       THEN variable_declaration(advance(p))
                       ELSE statement(p)}} : TRUE

\* The loop of compile: declarations up to Eof.
RECURSIVE compile_loop(_)
compile_loop(p) ==
    IF p.panicked THEN p
    ELSE IF check(p, "Eof") THEN advance(p)
    ELSE CHOOSE ret \in {compile_loop(q) : q \in {declaration(p)}} : TRUE

compile_parser_ignores_had_error(new_parser) ==
    CHOOSE ret \in
        {[chunk |-> IF parser.panicked THEN None ELSE Some(parser.chunk),
          strings |-> parser.strings,
          errors |-> parser.errors,
          panicked |-> parser.panicked] :
            parser \in
                {emit_ins(q, Op0("Return")) :
                    q \in {compile_loop(new_parser)}}}
        : TRUE

\* compile after Parser::new: the chunk, or None after an error, with
\* what it leaves in the interner and on stderr.  After a panic there is
\* no chunk: compile has not returned.
compile_parser(new_parser) ==
    CHOOSE ret \in
        {[chunk |-> IF parser.panicked \/ parser.had_error THEN None
                    ELSE Some(parser.chunk),
          strings |-> parser.strings,
          errors |-> parser.errors,
          panicked |-> parser.panicked] :
            parser \in
                {emit_ins(q, Op0("Return")) :
                    q \in {compile_loop(new_parser)}}}
        : TRUE

\* compile of the revision of src/, or of the one with control flow.
compile_revision(control_flow, source, interns, roots) ==
    compile_parser(
        IF control_flow
        THEN WithControlFlow(
                NewParser(Scanned(Scanner(source)), interns, roots))
        ELSE NewParser(Scanned(Scanner(source)), interns, roots))

compile(source, interns, roots) ==
    compile_revision(FALSE, source, interns, roots)

\* compile of the revision with control flow.
compile_control_flow(source, interns, roots) ==
    compile_revision(TRUE, source, interns, roots)

-----------------------------------------------------------------------------
(* The VM (src/src/vm.rs).  A machine m is the VM struct: ip, the value    *)
(* stack (stack_top is Len(m.values)), strings, globals, and what it has   *)
(* printed.                                                                *)

STACK_MAX == 256

\* A value is falsey iff it is Nil or Bool(false).
is_falsey_or_zero(value) ==
    value = Nil \/ value = Bool(FALSE) \/ value = Number(0)

is_falsey(value) == value = Nil \/ value = Bool(FALSE)

\* impl PartialEq for Value.
ValueEq(l, r) ==
    CASE l.t = "Number" /\ r.t = "Number" -> F64Eq(l.v, r.v)
      [] l.t = "Bool" /\ r.t = "Bool" -> l.v = r.v
      [] l.t = "String" /\ r.t = "String" -> PtrEq(l.v, r.v)
      [] OTHER -> l.t = r.t

\* impl Display for f64.  The digits are the fewest that read back as the
\* same f64 and, of those, the nearest to it; they are written in full,
\* without an exponent.

StripZeros(digits) == SubSeq(digits, 1, Len(digits) - TrailingZeros(digits))

\* A decimal is its digits d1 d2 .. dn, d1 and dn not 0, and the place
\* pt of its point: it is 0.d1d2..dn * 10^pt.  ExactDecimal is the one
\* equal to a finite x > 0: num / 2^k is num * 5^k / 10^k.
ExactDecimal(x) ==
    CHOOSE ret \in
        {[digits |-> StripZeros(e.all), pt |-> Len(e.all) - e.k] :
            e \in {[all |-> BigDecimal(BigMul(x.num, BigPow5(k))), k |-> k] :
                    k \in {BitLength(x.den) - 1}}} : TRUE

\* The f64 a decimal reads back as.
ReadBack(digits, pt) ==
    IF pt >= Len(digits)
    THEN Rounded(1, BigMul(BigOfDecimal(digits),
                           BigPow10(pt - Len(digits))), BigOne)
    ELSE Rounded(1, BigOfDecimal(digits), BigPow10(Len(digits) - pt))

\* The first n digits of a decimal, and the decimal one unit in their
\* last place above them.
RoundDown(digits, pt, n) ==
    [digits |-> StripZeros(SubSeq(digits, 1, n)), pt |-> pt]

RoundUp(digits, pt, n) ==
    LET below == {i \in 1..n : digits[i] # 9}
    IN  IF below = {} THEN [digits |-> << 1 >>, pt |-> pt + 1]
        ELSE [digits |-> SubSeq(digits, 1, Max(below) - 1)
                            \o << digits[Max(below)] + 1 >>,
              pt |-> pt]

\* A decimal of n digits reads back as x, whose exact decimal is `exact`:
\* the first n digits of x or the decimal just above them does.
ReadsBack(x, exact, n) ==
    \/ n = Len(exact.digits)
    \/ \E c \in {RoundDown(exact.digits, exact.pt, n),
                 RoundUp(exact.digits, exact.pt, n)} :
            ReadBack(c.digits, c.pt) = x

\* The decimal of n digits for x: of the two that may read back as x, the
\* nearer to x when both do, and the upper one when they are as near.
Nearest(x, exact, n) ==
    IF n = Len(exact.digits) THEN exact
    ELSE CHOOSE ret \in
            {IF c.up_ok /\ (~c.down_ok \/ exact.digits[n + 1] >= 5)
             THEN c.up ELSE c.down :
                c \in {[down |-> down, up |-> up,
                        down_ok |-> ReadBack(down.digits, down.pt) = x,
                        up_ok |-> ReadBack(up.digits, up.pt) = x] :
                        down \in {RoundDown(exact.digits, exact.pt, n)},
                        up \in {RoundUp(exact.digits, exact.pt, n)}}}
            : TRUE

\* The least n in lo..hi of which a decimal of n digits reads back as x,
\* when one of hi digits does: so does one of every greater n.
RECURSIVE ShortestIn(_, _, _, _)
ShortestIn(x, exact, lo, hi) ==
    IF lo = hi THEN lo
    ELSE IF ReadsBack(x, exact, (lo + hi) \div 2)
    THEN ShortestIn(x, exact, lo, (lo + hi) \div 2)
    ELSE ShortestIn(x, exact, (lo + hi) \div 2 + 1, hi)

\* The most digits the shortest decimal of an f64 has.
MAX_SIG_DIGITS == 17

\* flt2dec::to_shortest_str on a finite x > 0.  Every integer below 2^53
\* is an f64, so the digits of one are its shortest decimal.
Shortest(x) ==
    IF x.den = BigOne /\ BigLt(x.num, TwoTo53)
    THEN [digits |-> StripZeros(BigDecimal(x.num)),
          pt |-> Len(BigDecimal(x.num))]
    ELSE CHOOSE ret \in
            {Nearest(x, exact,
                     ShortestIn(x, exact, 1,
                                Min({MAX_SIG_DIGITS, Len(exact.digits)}))) :
                exact \in {ExactDecimal(x)}} : TRUE

DigitChars(digits) ==
    [i \in DOMAIN digits |-> Decimal(digits[i])[1]]

Zeros(n) == [i \in 1..n |-> "0"]

\* digits_to_dec_str with no fixed number of fraction digits.
FormatDecimal(digits, pt) ==
    IF pt <= 0 THEN << "0", "." >> \o Zeros(0 - pt) \o DigitChars(digits)
    ELSE IF pt < Len(digits)
    THEN DigitChars(SubSeq(digits, 1, pt)) \o << "." >>
            \o DigitChars(SubSeq(digits, pt + 1, Len(digits)))
    ELSE DigitChars(digits) \o Zeros(pt - Len(digits))

DisplayF64(x) ==
    LET minus == IF x.sign < 0 THEN << "-" >> ELSE <<>>
    IN  CASE IsNaN(x) -> << "N", "a", "N" >>
          [] IsInfinite(x) -> minus \o << "i", "n", "f" >>
          [] IsZero(x) -> minus \o << "0" >>
          [] OTHER ->
                CHOOSE ret \in
                    {minus \o FormatDecimal(s.digits, s.pt) :
                        s \in {Shortest([x EXCEPT !.sign = 1])}} : TRUE

\* impl Display for Value.
Display(value) ==
    CASE value.t = "Nil" -> << "n", "i", "l" >>
      [] value.t = "Bool" -> IF value.v THEN << "t", "r", "u", "e" >>
                             ELSE << "f", "a", "l", "s", "e" >>
      [] value.t = "Number" -> DisplayF64(value.v)
      [] value.t = "String" -> value.v.text

\* The strings the machine holds: on its stack and in its globals.
MachineRefs(stack, table) ==
    StringRefs(stack)
        \cup {table[k].v : k \in {n \in DOMAIN table : table[n].t = "String"}}

NewVM == [ip |-> 0, values |-> <<>>, strings |-> NewInterns,
          globals |-> <<>>, stdout |-> <<>>]

\* What one turn of the loop of run comes to.
Continue(m) == [vm |-> m, result |-> "continue"]
Finished(m, result) == [vm |-> m, result |-> result]
Panic(m) == [vm |-> m, result |-> "panic"]

runtime_err_continues(m, msg, c) ==
    IF m.ip < Len(c.lines)
    THEN [vm |-> m, result |-> "continue",
          stderr |-> [msg |-> msg, line |-> c.lines[m.ip + 1]]]
    ELSE Panic(m)

\* runtime_err: the message and the line of the byte at ip.
runtime_err(m, msg, c) ==
    IF m.ip < Len(c.lines)
    THEN [vm |-> m, result |-> "RuntimeError",
          stderr |-> [msg |-> msg, line |-> c.lines[m.ip + 1]]]
    ELSE Panic(m)

push(m, value) == [m EXCEPT !.values = Append(@, value)]
popped(m) == [m EXCEPT !.values = SubSeq(@, 1, Len(@) - 1)]
peek(m) == m.values[Len(m.values)]
peek_at(m, from_top) == m.values[Len(m.values) - from_top]

\* The number of operand bytes run reads after each opcode.
Operands(op) ==
    CASE op \in {"Jump", "JumpIfFalse", "Loop"} -> 2
      [] op \in {"Constant", "DefineGlobal", "GetGlobal", "SetGlobal",
                 "GetLocal", "SetLocal"} -> 1
      [] OTHER -> 0

\* The number of values each opcode takes off the stack or peeks at.
Needs(op) ==
    CASE op \in {"Equal", "Greater", "Less", "Add", "Subtract", "Multiply",
                 "Divide"} -> 2
      [] op \in {"JumpIfFalse", "DefineGlobal", "SetGlobal", "SetLocal",
                 "Pop", "Print", "Negate", "Not"} -> 1
      [] OTHER -> 0

UndefinedVariable(name) == [undefined_variable |-> name]

\* binary_op!: two Numbers, else a runtime error.
binary_op(m, c, op) ==
    LET b == peek_at(m, 0)
        a == peek_at(m, 1)
        rest == popped(popped(m))
    IN  IF b.t = "Number" /\ a.t = "Number"
        THEN Continue(push(rest,
                CASE op = "Greater" -> Bool(F64Lt(b.v, a.v))
                  [] op = "Less" -> Bool(F64Lt(a.v, b.v))
                  [] op = "Subtract" -> Float(F64Sub(a.v, b.v))
                  [] op = "Multiply" -> Float(F64Mul(a.v, b.v))
                  [] op = "Divide" -> Float(F64Div(a.v, b.v))))
        ELSE runtime_err(rest, "Operands must be numbers.", c)

\* push as a turn of the loop: a full stack is an index out of bounds.
Pushed(m, value) ==
    IF Len(m.values) = STACK_MAX THEN Panic(m) ELSE Continue(push(m, value))

Insert_if_absent(table, k, v) ==
    [n \in DOMAIN table \cup {k} |-> IF n \in DOMAIN table THEN table[n] ELSE v]

\* HashMap::insert and HashMap::remove on the globals.
Insert(table, k, v) ==
    [n \in DOMAIN table \cup {k} |-> IF n = k THEN v ELSE table[n]]
Remove_nothing(table, k) == table

Remove(table, k) == [n \in DOMAIN table \ {k} |-> table[n]]

\* The arm of JumpIfFalse: the condition stays on the stack.
jump_if_false(m, operand) ==
    Continue(IF is_falsey(peek(m)) THEN [m EXCEPT !.ip = @ + operand] ELSE m)

\* The arm of Add: v2 is popped first, then v1; Strings concatenate to
\* v1 followed by v2, interned.
add_values_right_first(m, c) ==
    LET v2 == peek_at(m, 0)
        v1 == peek_at(m, 1)
        rest == popped(popped(m))
    IN  IF v2.t = "Number" /\ v1.t = "Number"
        THEN Continue(push(rest, Float(F64Add(v2.v, v1.v))))
        ELSE IF v2.t = "String" /\ v1.t = "String"
        THEN LET r == get_or_intern(m.strings,
                        MachineRefs(rest.values, m.globals)
                            \cup StringRefs(c.constants) \cup {v2.v, v1.v},
                        v2.v.text \o v1.v.text)
             IN  Continue(push([rest EXCEPT !.strings = r.table],
                               String(r.ref)))
        ELSE runtime_err(rest,
                "Operands must be two numbers or two strings.", c)

add_values(m, c) ==
    LET v2 == peek_at(m, 0)
        v1 == peek_at(m, 1)
        rest == popped(popped(m))
    IN  IF v2.t = "Number" /\ v1.t = "Number"
        THEN Continue(push(rest, Float(F64Add(v2.v, v1.v))))
        ELSE IF v2.t = "String" /\ v1.t = "String"
        THEN LET r == get_or_intern(m.strings,
                        MachineRefs(rest.values, m.globals)
                            \cup StringRefs(c.constants) \cup {v2.v, v1.v},
                        v1.v.text \o v2.v.text)
             IN  Continue(push([rest EXCEPT !.strings = r.table],
                               String(r.ref)))
        ELSE runtime_err(rest,
                "Operands must be two numbers or two strings.", c)

\* The arm of Not: the value popped, and its falseyness pushed.
not_value(m) == Continue(push(popped(m), Bool(is_falsey(peek_at(m, 0)))))

\* The arm of the match in run for opcode op, with ip past its operand.
execute(m, c, op, operand) ==
    LET constant == get_constant(c, operand)
        top == peek_at(m, 0)
        below == peek_at(m, 1)
        rest == popped(m)
    IN  CASE op = "Return" -> Finished(m, "Ok")
          [] op = "Jump" -> Continue([m EXCEPT !.ip = @ + operand])
          [] op = "JumpIfFalse" -> jump_if_false(m, operand)
          [] op = "Loop" ->
                \* usize: a subtraction below 0 panics; without overflow
                \* checks ip wraps beyond any code and read_byte panics.
                IF m.ip - (operand + 3) < 0 THEN Panic(m)
                ELSE Continue([m EXCEPT !.ip = @ - (operand + 3)])
          [] op = "Constant" ->
                IF constant = None THEN Panic(m)
                ELSE Pushed(m, constant.some)
          [] op = "DefineGlobal" ->
                IF constant = None \/ constant.some.t # "String"
                THEN Panic(m)
                ELSE Continue([rest EXCEPT !.globals =
                        Insert(@, constant.some.v.text, top)])
          [] op = "GetGlobal" ->
                IF constant = None \/ constant.some.t # "String"
                THEN Panic(m)
                ELSE IF constant.some.v.text \in DOMAIN m.globals
                THEN Pushed(m, m.globals[constant.some.v.text])
                ELSE runtime_err(m,
                        UndefinedVariable(constant.some.v.text), c)
          [] op = "SetGlobal" ->
                IF constant = None \/ constant.some.t # "String"
                THEN Panic(m)
                ELSE LET var_name == constant.some.v.text
                         inserted == [m EXCEPT !.globals =
                                         Insert(@, var_name, peek(m))]
                     IN  IF var_name \in DOMAIN m.globals
                         THEN Continue(inserted)
                         ELSE runtime_err(
                                [inserted EXCEPT !.globals =
                                    Remove(@, var_name)],
                                UndefinedVariable(var_name), c)
          [] op = "GetLocal" ->
                IF operand >= Len(m.values) THEN Panic(m)
                ELSE Pushed(m, peek_at(m, operand))
          [] op = "SetLocal" ->
                IF operand + 1 >= Len(m.values) THEN Panic(m)
                ELSE Continue([m EXCEPT
                        !.values[Len(m.values) - (operand + 1)] = peek(m)])
          [] op = "Pop" -> Continue(rest)
          [] op = "Print" ->
                Continue([rest EXCEPT !.stdout = Append(@, Display(top))])
          [] op = "True" -> Pushed(m, Bool(TRUE))
          [] op = "False" -> Pushed(m, Bool(FALSE))
          [] op = "Nil" -> Pushed(m, Nil)
          [] op = "Negate" ->
                IF top.t = "Number"
                THEN Continue(push(rest, Float(F64Neg(top.v))))
                ELSE runtime_err(rest, "Operand must be a number.", c)
          [] op = "Not" -> not_value(m)
          [] op = "Equal" ->
                Continue(push(popped(rest), Bool(ValueEq(below, top))))
          [] op = "Add" -> add_values(m, c)
          [] op \in {"Greater", "Less", "Subtract", "Multiply", "Divide"} ->
                binary_op(m, c, op)

InvalidOpcode(code) == [invalid_opcode |-> code]

\* try_into on the byte run has read, by the enum the machine has.
decode(m, byte) ==
    IF ControlFlow(m) THEN OpcodeTryFromLoop(byte) ELSE OpcodeTryFrom(byte)

\* One turn of the loop of run: read_byte, try_into, and the arm.  A read
\* past the code, or a pop or peek of a missing value, is a panic.
run_instruction(m, c) ==
    IF m.ip >= Len(c.code) THEN Panic(m)
    ELSE LET decoded == decode(m, c.code[m.ip + 1])
             at == m.ip + 1
             width == Operands(decoded.ok)
         IN  IF "err" \in DOMAIN decoded
             THEN Finished([m EXCEPT !.ip = at,
                              !.stdout = Append(@, InvalidOpcode(decoded.err))],
                           "CompileError")
             ELSE IF at + width > Len(c.code) THEN Panic(m)
             ELSE IF Len(m.values) < Needs(decoded.ok) THEN Panic(m)
             ELSE execute([m EXCEPT !.ip = at + width], c, decoded.ok,
                          IF width = 2
                          THEN FromBeBytes(c.code[at + 1], c.code[at + 2])
                          ELSE IF width = 1 THEN c.code[at + 1]
                          ELSE 0)

-----------------------------------------------------------------------------
(* The state of each component after construction.  A specification      *)
(* starts its own component from it and leaves the others in it.           *)

IdleIntern == strings = NewInterns /\ held = EmptyBag /\ iop = [op |-> "new"]

IdleChunk ==
    /\ chunk = NewChunk
    /\ written = <<>>
    /\ adds = 0
    /\ cop = [op |-> "new"]

IdleCompiler ==
    /\ compiler = NewCompiler
    /\ declaring = FALSE
    /\ added = <<>>
    /\ decls = 0
    /\ kop = [op |-> "new"]

IdleVM ==
    /\ vm = NewVM
    /\ running = None
    /\ vop = [op |-> "new", result |-> "Ok"]
    /\ calls = 0
    /\ steps = 0
    /\ collected = FALSE

\* The scanner and the parser of the specifications that have none.
IdleScanner == scanning = Scanner(<<>>) /\ sop = [op |-> "new"]
IdleParser == parsing = None /\ pop = [op |-> "new"]
IdleFront == IdleScanner /\ IdleParser

-----------------------------------------------------------------------------
(* SpecChunk: a client writes Ops into a chunk and adds constants.         *)
(* SpecPool: a client adds constants to a pool that is empty or nearly     *)
(* full.                                                                   *)

\* Operands the client writes: bytes that are themselves opcodes of wider
\* instructions, and the extremes.
ByteArgs == {0, 2, U8_MAX}
U16Args == {258, U16_MAX}
WriteLines == {1, 2}
ConstValues == {Number(1), Nil}
PoolValues == {Number(1), Nil, Bool(TRUE)}

AllOps ==
    {Op0(n) : n \in SimpleOps}
        \cup {Op1(n, a) : n \in DoubleOps, a \in ByteArgs}
        \cup {Op1(n, a) : n \in U16Ops, a \in U16Args}

\* A pool one constant short of the last u8 index.
NearlyFull == [i \in 1..U8_MAX |-> Number(0)]

InitChunk ==
    IdleChunk /\ IdleIntern /\ IdleCompiler /\ IdleVM /\ IdleFront

InitPool ==
    /\ chunk \in {NewChunk, [NewChunk EXCEPT !.constants = NearlyFull]}
    /\ written = <<>>
    /\ adds = 0
    /\ cop = [op |-> "new"]
    /\ IdleIntern
    /\ IdleCompiler
    /\ IdleVM
    /\ IdleFront

Write(ins, line) ==
    /\ Len(written) < MaxWrites
    /\ chunk' = write(chunk, ins, line)
    /\ written' = Append(written, ins)
    /\ cop' = [op |-> "write"]
    /\ UNCHANGED <<frontVars, adds, internVars, compilerVars, vmVars>>

AddConstantUpTo(value, limit) ==
    /\ adds < limit
    /\ LET r == add_constant(chunk, value)
       IN  /\ chunk' = r.chunk
           /\ cop' = [op |-> "add_constant", ret |-> r.ret,
                      before |-> Len(chunk.constants)]
    /\ adds' = adds + 1
    /\ UNCHANGED <<frontVars, written, internVars, compilerVars, vmVars>>

AddConstant(value) == AddConstantUpTo(value, MaxAdds)

PoolAdd(value) == AddConstantUpTo(value, MaxPoolAdds)

NextChunk ==
    \/ \E ins \in AllOps, line \in WriteLines : Write(ins, line)
    \/ \E value \in ConstValues : AddConstant(value)

NextPool == \E value \in PoolValues : PoolAdd(value)

SpecChunk == InitChunk /\ [][NextChunk]_vars

SpecPool == InitPool /\ [][NextPool]_vars

-----------------------------------------------------------------------------
(* SpecIntern: a client of StringInterns.                                  *)

\* The texts the client interns: the empty text, two texts and their
\* concatenation.
Texts == {<<>>, <<"a">>, <<"b">>, <<"a", "b">>}

Live == BagToSet(held)

InitIntern ==
    IdleIntern /\ IdleChunk /\ IdleCompiler /\ IdleVM /\ IdleFront

Intern(s) ==
    /\ BagCardinality(held) < MaxHeld
    /\ LET r == get_or_intern(strings, Live, s)
       IN  /\ strings' = r.table
           /\ held' = held (+) SetToBag({r.ref})
           /\ iop' = [op |-> "get_or_intern", text |-> s, ref |-> r.ref,
                      reused |-> \E h \in Live : h.text = s]
    /\ UNCHANGED <<frontVars, chunkVars, compilerVars, vmVars>>

CloneRef(r) ==
    /\ BagCardinality(held) < MaxHeld
    /\ held' = held (+) SetToBag({r})
    /\ iop' = [op |-> "clone", ref |-> r]
    /\ UNCHANGED <<frontVars, strings, chunkVars, compilerVars, vmVars>>

DropRef(r) ==
    /\ held' = held (-) SetToBag({r})
    /\ iop' = [op |-> "drop", ref |-> r]
    /\ UNCHANGED <<frontVars, strings, chunkVars, compilerVars, vmVars>>

Clean ==
    /\ strings' = clean(strings, Live)
    /\ iop' = [op |-> "clean",
               dropped |-> Cardinality(DOMAIN strings)
                             - Cardinality(DOMAIN strings')]
    /\ UNCHANGED <<frontVars, held, chunkVars, compilerVars, vmVars>>

NextIntern ==
    \/ \E s \in Texts : Intern(s)
    \/ \E r \in Live : CloneRef(r)
    \/ \E r \in Live : DropRef(r)
    \/ Clean

SpecIntern == InitIntern /\ [][NextIntern]_vars

-----------------------------------------------------------------------------
(* SpecCompiler: the local table driven as the parser drives it            *)
(* (src/src/compiler/parser.rs): a block begins and ends a scope, a        *)
(* variable declaration inside a block calls add_local, compiles the       *)
(* initializer, which may resolve names, and then calls mark_initialized   *)
(* whether or not add_local succeeded.                                     *)

LocalNames == {Identifier(<<"x">>), Identifier(<<"y">>)}

\* A table two locals short of full: 254 locals declared in one block.
Filler(i) == Local(Identifier(<<"v">> \o Decimal(i)), Some(1))
NearlyFullLocals == [i \in 1..(UINT8_COUNT - 2) |-> Filler(i)]

InitCompiler ==
    /\ \/ compiler = NewCompiler /\ added = <<>>
       \/ /\ compiler = [scope_depth |-> 1, locals |-> NearlyFullLocals]
          /\ added = << Len(NearlyFullLocals) >>
    /\ declaring = FALSE
    /\ decls = 0
    /\ kop = [op |-> "new"]
    /\ IdleIntern
    /\ IdleChunk
    /\ IdleVM
    /\ IdleFront

\* statement: '{' begins a scope.
BeginScope ==
    /\ ~declaring
    /\ compiler.scope_depth < MaxDepth
    /\ compiler' = begin_scope(compiler)
    /\ added' = Append(added, 0)
    /\ kop' = [op |-> "begin_scope"]
    /\ UNCHANGED <<frontVars, declaring, decls, internVars, chunkVars, vmVars>>

\* Parser::end_scope: compiler.end_scope() and one Pop per removed local.
EndScope ==
    /\ ~declaring
    /\ compiler.scope_depth > 0
    /\ LET r == end_scope(compiler)
       IN  /\ "panic" \notin DOMAIN r
           /\ compiler' = r.compiler
           /\ kop' = [op |-> "end_scope", before |-> compiler,
                      count |-> r.count, pops |-> r.count,
                      added |-> added[Len(added)]]
    /\ added' = SubSeq(added, 1, Len(added) - 1)
    /\ UNCHANGED <<frontVars, declaring, decls, internVars, chunkVars, vmVars>>

\* declare_variable: inside a block, add_local; its error is reported and
\* the declaration goes on.
DeclareVariable(name) ==
    /\ ~declaring
    /\ decls < MaxDecls
    /\ decls' = decls + 1
    /\ compiler.scope_depth > 0
    /\ LET r == add_local(compiler, name)
       IN  /\ compiler' = r.compiler
           /\ added' = IF "ok" \in DOMAIN r
                       THEN [added EXCEPT ![Len(added)] = @ + 1]
                       ELSE added
           /\ kop' = [op |-> "add_local", name |-> name,
                      res |-> IF "ok" \in DOMAIN r THEN "Ok" ELSE r.err]
    /\ declaring' = TRUE
    /\ UNCHANGED <<frontVars, internVars, chunkVars, vmVars>>

\* define_variable: inside a block, mark_initialized.
DefineVariable ==
    /\ declaring
    /\ LET r == mark_initialized(compiler)
       IN  /\ "panic" \notin DOMAIN r
           /\ compiler' = r.compiler
    /\ declaring' = FALSE
    /\ kop' = [op |-> "mark_initialized"]
    /\ UNCHANGED <<frontVars, added, decls, internVars, chunkVars, vmVars>>

\* named_variable: resolve_local.
ResolveLocal(name) ==
    /\ kop' = [op |-> "resolve_local", name |-> name,
               ret |-> resolve_local(compiler, name)]
    /\ UNCHANGED <<frontVars, compiler, declaring, added, decls,
                   internVars, chunkVars, vmVars>>

NextCompiler ==
    \/ BeginScope
    \/ EndScope
    \/ \E name \in LocalNames : DeclareVariable(name)
    \/ DefineVariable
    \/ \E name \in LocalNames : ResolveLocal(name)

SpecCompiler == InitCompiler /\ [][NextCompiler]_vars

-----------------------------------------------------------------------------
(* SpecVM: a driver calls interpret on one VM, source after source, and    *)
(* garbage_collect between the calls (src/src/main.rs, repl).  A call of   *)
(* interpret compiles in one step and then runs the loop of run one        *)
(* instruction per step.                                                   *)

\* The sources interpret is called with.
Programs ==
    << \* { var x = 1; print 2 + x; }
       << "{", " ", "v", "a", "r", " ", "x", " ", "=", " ", "1", ";",
          " ", "p", "r", "i", "n", "t", " ", "2", " ", "+", " ", "x",
          ";", " ", "}" >>,
       \* { var x = 1; { var y = 2; x = y; } print x; }
       << "{", " ", "v", "a", "r", " ", "x", " ", "=", " ", "1", ";",
          " ", "{", " ", "v", "a", "r", " ", "y", " ", "=", " ", "2",
          ";", " ", "x", " ", "=", " ", "y", ";", " ", "}", " ", "p",
          "r", "i", "n", "t", " ", "x", ";", " ", "}" >>,
       \* var a = "a";
       << "v", "a", "r", " ", "a", " ", "=", " ", "\"", "a", "\"", ";" >>,
       \* print a == "a";
       << "p", "r", "i", "n", "t", " ", "a", " ", "=", "=", " ", "\"",
          "a", "\"", ";" >>,
       \* var b = "a" + "b"; print b == "ab";
       << "v", "a", "r", " ", "b", " ", "=", " ", "\"", "a", "\"", " ",
          "+", " ", "\"", "b", "\"", ";", " ", "p", "r", "i", "n", "t",
          " ", "b", " ", "=", "=", " ", "\"", "a", "b", "\"", ";" >>,
       \* print "a" + "b" == "ab";
       << "p", "r", "i", "n", "t", " ", "\"", "a", "\"", " ", "+", " ",
          "\"", "b", "\"", " ", "=", "=", " ", "\"", "a", "b", "\"", ";" >>,
       \* if (b == "ab") print 1; else print 2;
       << "i", "f", " ", "(", "b", " ", "=", "=", " ", "\"", "a", "b",
          "\"", ")", " ", "p", "r", "i", "n", "t", " ", "1", ";", " ",
          "e", "l", "s", "e", " ", "p", "r", "i", "n", "t", " ", "2",
          ";" >>,
       \* var i = 0; while (i < 1) i = i + 1;
       << "v", "a", "r", " ", "i", " ", "=", " ", "0", ";", " ", "w",
          "h", "i", "l", "e", " ", "(", "i", " ", "<", " ", "1", ")",
          " ", "i", " ", "=", " ", "i", " ", "+", " ", "1", ";" >>,
       \* while (false) print 1;
       << "w", "h", "i", "l", "e", " ", "(", "f", "a", "l", "s", "e",
          ")", " ", "p", "r", "i", "n", "t", " ", "1", ";" >>,
       \* for (var i = 0; i < 1; i = i + 1) print i;
       << "f", "o", "r", " ", "(", "v", "a", "r", " ", "i", " ", "=",
          " ", "0", ";", " ", "i", " ", "<", " ", "1", ";", " ", "i",
          " ", "=", " ", "i", " ", "+", " ", "1", ")", " ", "p", "r",
          "i", "n", "t", " ", "i", ";" >>,
       \* print nil or "a"; print true and 1;
       << "p", "r", "i", "n", "t", " ", "n", "i", "l", " ", "o", "r",
          " ", "\"", "a", "\"", ";", " ", "p", "r", "i", "n", "t", " ",
          "t", "r", "u", "e", " ", "a", "n", "d", " ", "1", ";" >>,
       \* print "a" + -"b";
       << "p", "r", "i", "n", "t", " ", "\"", "a", "\"", " ", "+", " ",
          "-", "\"", "b", "\"", ";" >>,
       \* a = "b";
       << "a", " ", "=", " ", "\"", "b", "\"", ";" >>,
       \* print ;
       << "p", "r", "i", "n", "t", " ", ";" >>,
       \* print !(-1 * 2 / 2 - 1 > 0) != nil;
       << "p", "r", "i", "n", "t", " ", "!", "(", "-", "1", " ", "*",
          " ", "2", " ", "/", " ", "2", " ", "-", " ", "1", " ", ">",
          " ", "0", ")", " ", "!", "=", " ", "n", "i", "l", ";" >>,
       \* print 1; print 1 + nil; print 2;
       << "p", "r", "i", "n", "t", " ", "1", ";", " ", "p", "r", "i",
          "n", "t", " ", "1", " ", "+", " ", "n", "i", "l", ";", " ",
          "p", "r", "i", "n", "t", " ", "2", ";" >>,
       \* print 1; @
       << "p", "r", "i", "n", "t", " ", "1", ";", " ", "@" >>,
       \* { var a = 1; { var a = a; } }
       << "{", " ", "v", "a", "r", " ", "a", " ", "=", " ", "1", ";",
          " ", "{", " ", "v", "a", "r", " ", "a", " ", "=", " ", "a",
          ";", " ", "}", " ", "}" >>,
       \* a + b = c;
       << "a", " ", "+", " ", "b", " ", "=", " ", "c", ";" >>,
       \* var a = true; a; nil; while (a) a = false;
       << "v", "a", "r", " ", "a", " ", "=", " ", "t", "r", "u", "e",
          ";", " ", "a", ";", " ", "n", "i", "l", ";", " ", "w", "h",
          "i", "l", "e", " ", "(", "a", ")", " ", "a", " ", "=", " ",
          "f", "a", "l", "s", "e", ";" >>,
       \* print 1; @ f
       << "p", "r", "i", "n", "t", " ", "1", ";", " ", "@", " ", "f" >>,
       \* print 1 + f;
       << "p", "r", "i", "n", "t", " ", "1", " ", "+", " ", "f", ";" >> >>

Sources == Range(Programs)

\* The VM after VM::new: that of src/, or that of the revision with
\* control flow.
NewVMs == {NewVM, WithControlFlow(NewVM)}

InitVM ==
    /\ vm \in NewVMs
    /\ running = None
    /\ vop = [op |-> "new", result |-> "Ok"]
    /\ calls = 0
    /\ steps = 0
    /\ collected = FALSE
    /\ IdleIntern /\ IdleChunk /\ IdleCompiler /\ IdleFront

\* The opcode run reads at ip.
OpcodeAt(m, c) ==
    IF m.ip < Len(c.code) /\ "ok" \in DOMAIN decode(m, c.code[m.ip + 1])
    THEN decode(m, c.code[m.ip + 1]).ok
    ELSE "none"

\* interpret after compile has returned r, or has panicked: up to the
\* call of run.
InterpretCompiled(source, r) ==
    /\ vm' = [vm EXCEPT !.strings = r.strings,
                        !.ip = IF r.chunk = None THEN @ ELSE 0]
    /\ running' = IF r.panicked THEN None ELSE r.chunk
    /\ vop' = [op |-> "interpret",
               source |-> source,
               printed |-> Len(vm.stdout),
               before |-> vm,
               stderr |-> r.errors,
               result |-> IF r.panicked THEN "panic"
                          ELSE IF r.chunk = None THEN "CompileError"
                          ELSE "continue"]

\* interpret, up to the call of run, as one of at most `most` calls.
InterpretUpTo(source, most) ==
    /\ running = None
    /\ vop.result # "panic"
    /\ calls < most
    /\ InterpretCompiled(
            source,
            compile_revision(ControlFlow(vm), source, vm.strings,
                             MachineRefs(vm.values, vm.globals)))
    /\ calls' = calls + 1
    /\ steps' = 0
    /\ UNCHANGED <<frontVars, collected, internVars, chunkVars, compilerVars>>

Interpret(source) == InterpretUpTo(source, MaxCalls)

\* One turn of the loop of run; when it returns, interpret returns and
\* drops the chunk.
Run ==
    /\ running # None
    /\ steps < MaxSteps
    /\ LET r == run_instruction(vm, running.some)
       IN  /\ vm' = r.vm
           /\ running' = IF r.result = "continue" THEN running ELSE None
           /\ vop' = [op |-> OpcodeAt(vm, running.some),
                      source |-> vop.source,
                      printed |-> vop.printed,
                      at |-> vm.ip,
                      chunk |-> running.some,
                      before |-> vm,
                      values |-> vm.values,
                      result |-> r.result,
                      stderr |-> IF "stderr" \in DOMAIN r THEN << r.stderr >>
                                 ELSE <<>>]
    /\ steps' = steps + 1
    /\ UNCHANGED <<frontVars, calls, collected, internVars, chunkVars,
                   compilerVars>>

GarbageCollect ==
    /\ running = None
    /\ vop.result # "panic"
    /\ vm' = [vm EXCEPT !.strings =
                clean(@, MachineRefs(vm.values, vm.globals))]
    /\ vop' = [op |-> "garbage_collect", result |-> "Ok"]
    /\ collected' = (calls > 0)
    /\ UNCHANGED <<frontVars, running, calls, steps, internVars, chunkVars,
                   compilerVars>>

NextVM ==
    \/ \E source \in Sources : Interpret(source)
    \/ Run
    \/ GarbageCollect

SpecVM == InitVM /\ [][NextVM]_vars

-----------------------------------------------------------------------------
(* SpecLines: the client of SpecChunk, who may also take the chunk that    *)
(* compile returns for a source before writing.                            *)

\* The sources whose chunks the client of SpecLines takes from compile: two
\* of the sources of SpecVM, one of them with locals and one with a for
\* loop, and a source of three lines.
LineSources ==
    {Programs[2], Programs[10],
     \* print 1 +\n 2;\n print "a";
     << "p", "r", "i", "n", "t", " ", "1", " ", "+", "\n", " ", "2", ";",
        "\n", " ", "p", "r", "i", "n", "t", " ", "\"", "a", "\"", ";" >>}

\* The client takes the chunk compile returns for a source, by the compile
\* of src/ or by that of the revision with control flow.
Compile(control_flow, source) ==
    /\ cop.op = "new"
    /\ LET r == compile_revision(control_flow, source, NewInterns, {})
       IN  /\ r.chunk # None
           /\ chunk' = r.chunk.some
    /\ cop' = [op |-> "compile", source |-> source]
    /\ UNCHANGED <<frontVars, written, adds, internVars, compilerVars,
                   vmVars>>

NextLines ==
    \/ \E ins \in AllOps, line \in WriteLines : Write(ins, line)
    \/ \E control_flow \in BOOLEAN, source \in LineSources :
            Compile(control_flow, source)

\* SpecLines: a client writes Ops into a chunk that is new or that compile
\* has returned.
SpecLines == InitChunk /\ [][NextLines]_vars

-----------------------------------------------------------------------------
(* SpecLogical: the VM of SpecVM, called with the sources                  *)
(*     var c = 7; print <lhs> <and|or> (c = <rhs>); print c;               *)
(* whose right operand assigns, so that running it shows.                  *)

LogicalOperands == {Nil, Bool(FALSE), Bool(TRUE), Number(0), Number(1)}

LogicalCases ==
    [lhs : LogicalOperands, op : {"And", "Or"}, rhs : {Nil, Number(2)}]

\* The literal of a value in a source.
Literal(value) ==
    CASE value = Nil -> << "n", "i", "l" >>
      [] value = Bool(TRUE) -> << "t", "r", "u", "e" >>
      [] value = Bool(FALSE) -> << "f", "a", "l", "s", "e" >>
      [] OTHER -> DisplayF64(value.v)

LogicalSource(case) ==
    << "v", "a", "r", " ", "c", " ", "=", " ", "7", ";", " ",
       "p", "r", "i", "n", "t", " " >>
    \o Literal(case.lhs)
    \o (IF case.op = "And" THEN << " ", "a", "n", "d", " " >>
        ELSE << " ", "o", "r", " " >>)
    \o << "(", "c", " ", "=", " " >> \o Literal(case.rhs)
    \o << ")", ";", " ", "p", "r", "i", "n", "t", " ", "c", ";" >>

NextLogical ==
    \/ \E case \in LogicalCases : Interpret(LogicalSource(case))
    \/ Run
    \/ GarbageCollect

SpecLogical == InitVM /\ [][NextLogical]_vars

-----------------------------------------------------------------------------
(* SpecAdd: the VM of SpecVM, called with sources that add two values of   *)
(* every kind: numbers whose sum is a number, numbers whose sum no f64     *)
(* holds, strings, and pairs that cannot be added, alone on the stack and  *)
(* above another value.                                                    *)

AddSources ==
    \* print 1 + 2;
    "numbers" :> << "p", "r", "i", "n", "t", " ", "1", " ", "+", " ", "2",
                    ";" >>
    \* print 0.1 + 0.2;
    @@ "rounded" :> << "p", "r", "i", "n", "t", " ", "0", ".", "1", " ", "+",
                       " ", "0", ".", "2", ";" >>
    \* print "a" + "b";
    @@ "strings" :> << "p", "r", "i", "n", "t", " ", "\"", "a", "\"", " ",
                       "+", " ", "\"", "b", "\"", ";" >>
    \* print 1 + "a";
    @@ "number_string" :> << "p", "r", "i", "n", "t", " ", "1", " ", "+", " ",
                             "\"", "a", "\"", ";" >>
    \* print "a" + 1;
    @@ "string_number" :> << "p", "r", "i", "n", "t", " ", "\"", "a", "\"",
                             " ", "+", " ", "1", ";" >>
    \* print nil + 1;
    @@ "nil_number" :> << "p", "r", "i", "n", "t", " ", "n", "i", "l", " ",
                          "+", " ", "1", ";" >>
    \* print true + false;
    @@ "bools" :> << "p", "r", "i", "n", "t", " ", "t", "r", "u", "e", " ",
                     "+", " ", "f", "a", "l", "s", "e", ";" >>
    \* print 1 == 2 + 3;
    @@ "above" :> << "p", "r", "i", "n", "t", " ", "1", " ", "=", "=", " ",
                     "2", " ", "+", " ", "3", ";" >>
    \* print "a" == "b" + nil;
    @@ "above_error" :> << "p", "r", "i", "n", "t", " ", "\"", "a", "\"", " ",
                           "=", "=", " ", "\"", "b", "\"", " ", "+", " ",
                           "n", "i", "l", ";" >>

NextAdd ==
    \/ \E name \in DOMAIN AddSources : Interpret(AddSources[name])
    \/ Run
    \/ GarbageCollect

SpecAdd == InitVM /\ [][NextAdd]_vars

-----------------------------------------------------------------------------
(* SpecFalsey: the VM of SpecVM, called with the sources                   *)
(*     print !<v>; if (<v>) print 1; else print 2;                         *)
(* for a value of every kind.                                              *)

\* The literals tested.
TruthOperands ==
    "nil" :> << "n", "i", "l" >>
    @@ "false" :> << "f", "a", "l", "s", "e" >>
    @@ "true" :> << "t", "r", "u", "e" >>
    @@ "zero" :> << "0" >>
    @@ "one" :> << "1" >>
    @@ "empty" :> << "\"", "\"" >>
    @@ "text" :> << "\"", "a", "\"" >>

FalseySource(operand) ==
    << "p", "r", "i", "n", "t", " ", "!" >> \o TruthOperands[operand]
    \o << ";", " ", "i", "f", " ", "(" >> \o TruthOperands[operand]
    \o << ")", " ", "p", "r", "i", "n", "t", " ", "1", ";", " ", "e", "l", "s",
       "e", " ", "p", "r", "i", "n", "t", " ", "2", ";" >>

NextFalsey ==
    \/ \E operand \in DOMAIN TruthOperands : Interpret(FalseySource(operand))
    \/ Run
    \/ GarbageCollect

SpecFalsey == InitVM /\ [][NextFalsey]_vars

-----------------------------------------------------------------------------
(* SpecControl: the VM of SpecVM, called with sources whose if or while    *)
(* statement takes each of its paths and is followed by `print 9;`.        *)

\* An if or a while, then print 9.
ControlSources ==
    "if_true" :> << "i", "f", " ", "(", "t", "r", "u", "e", ")", " ", "p",
                     "r", "i", "n", "t", " ", "1", ";", " ", "p", "r", "i",
                     "n", "t", " ", "9", ";" >>
    @@ "if_false" :> << "i", "f", " ", "(", "f", "a", "l", "s", "e", ")", " ",
                      "p", "r", "i", "n", "t", " ", "1", ";", " ", "p", "r",
                      "i", "n", "t", " ", "9", ";" >>
    @@ "if_else_true" :> << "i", "f", " ", "(", "1", ")", " ", "p", "r", "i",
                          "n", "t", " ", "1", ";", " ", "e", "l", "s", "e",
                          " ", "p", "r", "i", "n", "t", " ", "2", ";", " ",
                          "p", "r", "i", "n", "t", " ", "9", ";" >>
    @@ "if_else_false" :> << "i", "f", " ", "(", "n", "i", "l", ")", " ", "p",
                           "r", "i", "n", "t", " ", "1", ";", " ", "e", "l",
                           "s", "e", " ", "p", "r", "i", "n", "t", " ", "2",
                           ";", " ", "p", "r", "i", "n", "t", " ", "9", ";" >>
    @@ "if_local" :> << "{", " ", "v", "a", "r", " ", "x", " ", "=", " ", "1",
                      ";", " ", "i", "f", " ", "(", "x", ")", " ", "p", "r",
                      "i", "n", "t", " ", "1", ";", " ", "e", "l", "s", "e",
                      " ", "p", "r", "i", "n", "t", " ", "2", ";", " ", "p",
                      "r", "i", "n", "t", " ", "9", ";", " ", "}" >>
    @@ "while_never" :> << "w", "h", "i", "l", "e", " ", "(", "f", "a", "l",
                         "s", "e", ")", " ", "p", "r", "i", "n", "t", " ",
                         "1", ";", " ", "p", "r", "i", "n", "t", " ", "9",
                         ";" >>
    @@ "while_once" :> << "v", "a", "r", " ", "a", " ", "=", " ", "t", "r",
                        "u", "e", ";", " ", "w", "h", "i", "l", "e", " ",
                        "(", "a", ")", " ", "a", " ", "=", " ", "f", "a",
                        "l", "s", "e", ";", " ", "p", "r", "i", "n", "t",
                        " ", "9", ";" >>
    @@ "while_twice" :> << "v", "a", "r", " ", "i", " ", "=", " ", "0", ";",
                         " ", "w", "h", "i", "l", "e", " ", "(", "i", " ",
                         "<", " ", "2", ")", " ", "i", " ", "=", " ", "i",
                         " ", "+", " ", "1", ";", " ", "p", "r", "i", "n",
                         "t", " ", "9", ";" >>
    @@ "while_local" :> << "{", " ", "v", "a", "r", " ", "x", " ", "=", " ",
                         "1", ";", " ", "w", "h", "i", "l", "e", " ", "(",
                         "x", ")", " ", "x", " ", "=", " ", "n", "i", "l",
                         ";", " ", "p", "r", "i", "n", "t", " ", "9", ";",
                         " ", "}" >>

NextControl ==
    \/ \E name \in DOMAIN ControlSources : Interpret(ControlSources[name])
    \/ Run
    \/ GarbageCollect

SpecControl == InitVM /\ [][NextControl]_vars

-----------------------------------------------------------------------------
(* SpecOpcode: run called on a chunk whose code is one byte, any of the    *)
(* 256, and two zero bytes for the operand it may take, by a VM that holds *)
(* a global and zero, one or two values.                                   *)

OpcodeBytes == 0..U8_MAX

OpcodeStacks == {<<>>, << Nil >>, << Number(1), Number(2) >>}

InitOpcode ==
    /\ \E b \in OpcodeBytes, stack \in OpcodeStacks :
        /\ vm = [NewVM EXCEPT !.values = stack,
                              !.globals = (<< "g" >> :> Number(1))]
        /\ running = Some([code |-> << b, 0, 0 >>,
                           constants |-> << Number(7) >>,
                           lines |-> << 1, 1, 1 >>])
    /\ vop = [op |-> "new", result |-> "continue", source |-> <<>>,
              printed |-> 0]
    /\ calls = 0
    /\ steps = 0
    /\ collected = FALSE
    /\ IdleIntern
    /\ IdleChunk
    /\ IdleCompiler
    /\ IdleFront

NextOpcode == Run

SpecOpcode == InitOpcode /\ [][NextOpcode]_vars

-----------------------------------------------------------------------------
(* SpecGlobals: the VM of SpecVM, called up to MaxGlobalCalls times with   *)
(* sources that define, redefine, set and read one global, and sources     *)
(* that fail at run time and at compile time.                              *)

\* Most interpret calls in SpecGlobals.
MaxGlobalCalls == 3

\* One statement each.
GlobalSources ==
    "define" :> << "v", "a", "r", " ", "a", " ", "=", " ", "1", ";" >>
    @@ "redefine" :> << "v", "a", "r", " ", "a", " ", "=", " ", "\"", "s",
                      "\"", ";" >>
    @@ "set" :> << "a", " ", "=", " ", "2", ";" >>
    @@ "get" :> << "p", "r", "i", "n", "t", " ", "a", ";" >>
    @@ "runtime_error" :> << "p", "r", "i", "n", "t", " ", "3", " ", "+", " ",
                           "-", "n", "i", "l", ";" >>
    @@ "compile_error" :> << "p", "r", "i", "n", "t", " ", ";" >>

NextGlobals ==
    \/ \E name \in DOMAIN GlobalSources :
            InterpretUpTo(GlobalSources[name], MaxGlobalCalls)
    \/ Run
    \/ GarbageCollect

SpecGlobals == InitVM /\ [][NextGlobals]_vars

-----------------------------------------------------------------------------
(* SpecScanner: a scanner over one source, scan_token called again and     *)
(* again (src/src/scanner.rs).  A panic of scan_token ends the run.        *)

\* The keywords of the language and their token kinds.
Keywords ==
    (<< "a", "n", "d" >> :> "And")
    @@ (<< "c", "l", "a", "s", "s" >> :> "Class")
    @@ (<< "e", "l", "s", "e" >> :> "Else")
    @@ (<< "f", "a", "l", "s", "e" >> :> "False")
    @@ (<< "f", "o", "r" >> :> "For")
    @@ (<< "f", "u", "n" >> :> "Fun")
    @@ (<< "i", "f" >> :> "If")
    @@ (<< "n", "i", "l" >> :> "Nil")
    @@ (<< "o", "r" >> :> "Or")
    @@ (<< "p", "r", "i", "n", "t" >> :> "Print")
    @@ (<< "r", "e", "t", "u", "r", "n" >> :> "Return")
    @@ (<< "s", "u", "p", "e", "r" >> :> "Super")
    @@ (<< "t", "h", "i", "s" >> :> "This")
    @@ (<< "t", "r", "u", "e" >> :> "True")
    @@ (<< "v", "a", "r" >> :> "Var")
    @@ (<< "w", "h", "i", "l", "e" >> :> "While")

\* The characters of the short words, and the longest short word.
WordChars == {"f", "i", "n", "o", "r", "t", "u", "1"}
MaxWordLen == 3

\* The words scanned: every short word, the keywords, what is left of a
\* keyword without its last character, and the keywords with one more
\* character.
Words ==
    {w \in UNION {[1..n -> WordChars] : n \in 1..MaxWordLen} :
        w[1] \in AsciiLetters}
    \cup DOMAIN Keywords
    \cup {SubSeq(k, 1, Len(k) - 1) : k \in DOMAIN Keywords}
    \cup {Append(k, c) : k \in DOMAIN Keywords, c \in {"s", "1", "E"}}

\* Sources with comments, lines, numbers, strings and characters outside
\* the language.
ScannerTexts ==
    { \* // c<newline>1.5 .
      << "/", "/", " ", "c", "\n", "1", ".", "5", " ", "." >>,
      \* "a<newline>b" x
      << "\"", "a", "\n", "b", "\"", " ", "x" >>,
      \* "ab
      << "\"", "a", "b" >>,
      \* a_b @ <tab>>= 12.
      << "a", "_", "b", " ", "@", " ", "\t", ">", "=", " ", "1", "2", "." >>,
      \* the empty source
      <<>> }

ScanSources == Words \cup ScannerTexts \cup Sources

InitScanner ==
    /\ scanning \in {Scanner(source) : source \in ScanSources}
    /\ sop = [op |-> "new"]
    /\ IdleIntern
    /\ IdleChunk
    /\ IdleCompiler
    /\ IdleVM
    /\ IdleParser

ScanToken ==
    /\ "panic" \notin DOMAIN sop
    /\ LET r == scan_token(scanning)
       IN  /\ scanning' = r.scanner
           /\ sop' = IF "panic" \in DOMAIN r.res
                     THEN [op |-> "scan_token", before |-> scanning,
                           panic |-> r.res.panic]
                     ELSE [op |-> "scan_token", before |-> scanning,
                           res |-> r.res]
    /\ UNCHANGED <<parserVars, internVars, chunkVars, compilerVars, vmVars>>

NextScanner == ScanToken

SpecScanner == InitScanner /\ [][NextScanner]_vars

-----------------------------------------------------------------------------
(* SpecParser: a Parser over a source, driven as compile drives it, one    *)
(* declaration after another up to Eof, or by any of the calls the grammar *)
(* makes on it: advance, consume, error_at_current, error, synchronize,    *)
(* declaration.  pop holds the last call, the source, whether every call   *)
(* so far was one of compile's, and at the end what compile returns.       *)

MaxErrors == 2

\* The left sides of the assignments parsed: a bare variable and
\* expressions that are not one.
AssignTargets ==
    "bare" :> << "a" >>
    @@ "sum" :> << "a", " ", "+", " ", "b" >>
    @@ "product" :> << "a", " ", "*", " ", "b" >>
    @@ "group" :> << "(", "a", ")" >>
    @@ "negate" :> << "-", "a" >>
    @@ "not" :> << "!", "a" >>
    @@ "number" :> << "1" >>
    @@ "string" :> << "\"", "s", "\"" >>
    @@ "equal" :> << "a", " ", "=", "=", " ", "b" >>
    @@ "nil" :> << "n", "i", "l" >>

\* Their right sides.
AssignValues ==
    "variable" :> << "c" >>
    @@ "number" :> << "1" >>

AssignCases ==
    [lhs : DOMAIN AssignTargets, rhs : DOMAIN AssignValues,
     local : BOOLEAN]

\* `L = R;` at the top level, or in a block where a is a local.
AssignSource(case) ==
    LET statement_text == AssignTargets[case.lhs] \o << " ", "=", " " >>
                            \o AssignValues[case.rhs] \o << ";" >>
    IN  IF case.local
        THEN << "{", " ", "v", "a", "r", " ", "a", " ", "=", " ", "0", ";",
                " " >>
             \o statement_text \o << " ", "}" >>
        ELSE statement_text

\* The initializers of a local a: those that name a, one that names it
\* after an error, and those that do not.
Initializers ==
    "self" :> << "a" >>
    @@ "sum" :> << "a", " ", "+", " ", "1" >>
    @@ "right" :> << "1", " ", "+", " ", "a" >>
    @@ "group" :> << "(", "a", ")" >>
    @@ "negate" :> << "-", "a" >>
    @@ "assign" :> << "a", " ", "=", " ", "1" >>
    @@ "panic" :> << "-", ")", " ", "+", " ", "a" >>
    @@ "number" :> << "1" >>
    @@ "other" :> << "b" >>

InitializerCases ==
    [init : DOMAIN Initializers, outer : {"none", "global", "local"}]

\* `{ var a = E; }` alone, after a global a, or inside the block of a
\* local a.
InitializerSource(case) ==
    LET block_text == << "{", " ", "v", "a", "r", " ", "a", " ", "=", " " >>
                        \o Initializers[case.init] \o << ";", " ", "}" >>
    IN  CASE case.outer = "none" -> block_text
          [] case.outer = "global" ->
                << "v", "a", "r", " ", "a", " ", "=", " ", "1", ";", " " >>
                \o block_text
          [] case.outer = "local" ->
                << "{", " ", "v", "a", "r", " ", "a", " ", "=", " ", "1",
                   ";", " " >>
                \o block_text \o << " ", "}" >>

\* Sources with several errors.
RecoverySources ==
    "two" :> << "p", "r", "i", "n", "t", " ", ";", " ", "p", "r", "i", "n",
                 "t", " ", ")", " ", ";", " ", "p", "r", "i", "n", "t", " ",
                 "1", ";" >>
    @@ "scan" :> << "p", "r", "i", "n", "t", " ", "@", " ", "1", ";", " ", "@",
                  " ", "p", "r", "i", "n", "t", " ", "#", " ", "2", ";" >>
    @@ "vars" :> << "v", "a", "r", " ", "=", " ", "1", ";", " ", "v", "a", "r",
                  " ", "b", " ", "=", " ", ";", " ", "v", "a", "r", " ", "c" >>
    @@ "block" :> << "{", " ", "1", " ", "+", " ", ";", " ", "v", "a", "r",
                   " ", "a", " ", "=", " ", "a", ";", " ", "}", " ", "}" >>
    @@ "keys" :> << "a", " ", "b", " ", "c", " ", "i", "f", " ", "p", "r", "i",
                  "n", "t", " ", "1", ";", " ", "2", " ", "=", " ", "3", ";",
                  " ", "f", "u", "n" >>
    @@ "lines" :> << "p", "r", "i", "n", "t", " ", "1", "\n", "(", "2", ";",
                   "\n", "@", "\n", "p", "r", "i", "n", "t", " ", "3", ";" >>
    @@ "open" :> << "{", " ", "v", "a", "r", " ", "a", " ", "=", " ", "1", ";",
                  " ", "{", " ", "p", "r", "i", "n", "t", " ", "a" >>
    \* An error, then the one-letter word t, on which the scanner panics.
    @@ "word" :> << "p", "r", "i", "n", "t", " ", ")", ";", " ", "t", ";" >>
    \* An error, then the word t as the right operand of an infix operator.
    @@ "infix" :> << "p", "r", "i", "n", "t", " ", ";", " ", "1", " ", "+",
                   " ", "t", ";" >>

ParserSources ==
    {AssignSource(case) : case \in AssignCases}
    \cup {InitializerSource(case) : case \in InitializerCases}
    \cup Range(RecoverySources)

\* The message of the errors the calls report.
ErrorMessages == {"Expect expression."}

InitParser ==
    /\ \E source \in ParserSources :
        /\ parsing = NewParser(Scanned(Scanner(source)), NewInterns, {})
        /\ pop = [op |-> "new", source |-> source, compiling |-> TRUE]
    /\ IdleScanner
    /\ IdleIntern
    /\ IdleChunk
    /\ IdleCompiler
    /\ IdleVM

ParserIdle == <<scannerVars, internVars, chunkVars, compilerVars, vmVars>>

ParserRunning == pop.op # "end" /\ ~parsing.panicked

\* A call of a method of the parser from the grammar, on the sources with
\* several errors.
ParserCall(name, after) ==
    /\ ParserRunning
    /\ pop.source \in Range(RecoverySources)
    /\ parsing' = after
    /\ pop' = [op |-> name, source |-> pop.source, compiling |-> FALSE]
    /\ UNCHANGED ParserIdle

Advance == ParserCall("advance", advance(parsing))

Consume(expected, err) ==
    /\ Len(parsing.errors) < MaxErrors
    /\ ParserCall("consume", consume(parsing, expected, err))

ErrorAtCurrent(err) ==
    /\ Len(parsing.errors) < MaxErrors
    /\ ParserCall("error_at_current", error_at_current(parsing, err))

Error(err) ==
    /\ Len(parsing.errors) < MaxErrors
    /\ ParserCall("error", error(parsing, err))

Synchronize == ParserCall("synchronize", synchronize(parsing))

\* The body of compile's loop.
Declaration ==
    /\ ParserRunning
    /\ ~check(parsing, "Eof")
    /\ parsing' = declaration(parsing)
    /\ pop' = [op |-> "declaration", source |-> pop.source,
               compiling |-> pop.compiling]
    /\ UNCHANGED ParserIdle

\* The end of compile: Eof matched, Return emitted, had_error tested.
EndCompile ==
    /\ ParserRunning
    /\ check(parsing, "Eof")
    /\ parsing' = emit_ins(advance(parsing), Op0("Return"))
    /\ pop' = [op |-> "end", source |-> pop.source,
               compiling |-> pop.compiling,
               result |-> IF parsing.had_error THEN None
                          ELSE Some(parsing'.chunk)]
    /\ UNCHANGED ParserIdle

NextParser ==
    \/ Advance
    \/ \E err \in ErrorMessages : Consume("Semicolon", err)
    \/ \E err \in ErrorMessages : ErrorAtCurrent(err)
    \/ \E err \in ErrorMessages : Error(err)
    \/ Synchronize
    \/ Declaration
    \/ EndCompile

SpecParser == InitParser /\ [][NextParser]_vars

-----------------------------------------------------------------------------
(* SpecCompile: the loop of compile alone, which goes on calling           *)
(* declaration while the parser is not at Eof and then ends.               *)

CompileLoop == Declaration \/ EndCompile

SpecCompile ==
    InitParser /\ [][CompileLoop]_vars /\ WF_vars(CompileLoop)

-----------------------------------------------------------------------------
(* The claims.                                                             *)

\* C4: in every reachable state of a StringInterns at most one live shared
\* string exists per text: two live references have the same text iff they
\* are the identical reference, and the reference get_or_intern(s) returned
\* has text s and is identical to every live string with text s.
C4_OneLiveStringPerText ==
    /\ \A r1, r2 \in Live : (r1.text = r2.text) <=> PtrEq(r1, r2)
    /\ iop.op = "get_or_intern" =>
          /\ iop.ref \in Live
          /\ iop.ref.text = iop.text
          /\ \A h \in Live : h.text = iop.text => PtrEq(h, iop.ref)

\* C4's case: get_or_intern has just returned the reference of a string that
\* was still live, while a string with another text is live too.
C4_Witness ==
    /\ iop.op = "get_or_intern"
    /\ iop.reused
    /\ held[iop.ref] >= 2
    /\ \E h \in Live : h.text # iop.text

\* C6: after clean() every entry of the table has a live weak reference,
\* and every entry that was live before clean() is still there, unchanged.
C6_CleanDropsOnlyDead ==
    [][iop'.op = "clean" =>
          /\ \A s \in DOMAIN strings' : strings'[s] \in Addrs(BagToSet(held'))
          /\ \A s \in DOMAIN strings :
                strings[s] \in Addrs(Live) =>
                    s \in DOMAIN strings' /\ strings'[s] = strings[s]]_vars

\* C6's case: clean() has just dropped a dead entry and kept a live one.
C6_Witness ==
    /\ iop.op = "clean"
    /\ iop.dropped > 0
    /\ DOMAIN strings # {}

\* C8: after any sequence of Chunk::write calls, and for every chunk
\* returned by compile, the line table has exactly one entry per code byte,
\* operand bytes included.  In SpecLines the chunk is a new one or one that
\* compile has returned, with the Ops the client has written after it.
C8_LinesMatchCode == Len(chunk.lines) = Len(chunk.code)

\* C8's case: compile has returned the chunk of the source of three lines,
\* whose code has one-byte operands and lines 1, 2 and 3, and the client has
\* then written an instruction with a two-byte operand and one with a
\* one-byte operand into it.
C8_Witness ==
    /\ Len(written) = 2
    /\ written[1].op \in U16Ops
    /\ written[2].op \in DoubleOps
    /\ Len(chunk.code) > 5 + 5
    /\ {1, 2, 3} \subseteq Range(chunk.lines)
    /\ chunk.code[1] = OpcodeByte("Constant")

\* Every constant-index operand written so far names a constant of the pool.
ConstOperandsInPool ==
    \A i \in 1..Len(written) :
        written[i].op \in ConstIdxOps => written[i].arg < Len(chunk.constants)

\* The walk of the code from offset 0 yields the written Ops and ends at
\* |code|.
WalkYieldsWritten ==
    LET d == disassemble(chunk)
    IN  /\ "panic" \notin DOMAIN d
        /\ d.ins = written
        /\ d.end = Len(chunk.code)

\* C9 as stated: for any sequence of Ops written with Chunk::write the walk
\* yields exactly the written ops and ends at |code|.
C9_Original == WalkYieldsWritten

\* C9 as amended: the same, for any sequence of Ops whose constant-index
\* operands name constants of the pool.
C9_RoundTrip == ConstOperandsInPool => WalkYieldsWritten

\* C9's case: a jump with an operand whose two bytes differ, then a Constant
\* whose operand names a constant of the pool.
C9_Witness ==
    /\ Len(written) = 2
    /\ written[1] = Op1("Jump", 258)
    /\ written[2] = Op1("Constant", 0)
    /\ Len(chunk.constants) >= 1

\* C10 as stated: a chunk never holds more than 256 constants, and an
\* add_constant call made when the pool holds 256 fails and leaves the pool
\* unchanged.
C10_PoolAtMost256 ==
    /\ Len(chunk.constants) <= U8_MAX + 1
    /\ (cop.op = "add_constant" /\ cop.before = U8_MAX + 1) =>
          cop.ret = None /\ Len(chunk.constants) = cop.before

\* C2 as stated: resolve_local(name) returns the table index (0 for the
\* first-declared local, local_count - 1 for the newest) of the highest
\* local whose lexeme equals name, with whether it is initialized, and none
\* when no local has that lexeme.
C2_ResolveReturnsTableIndex ==
    kop.op = "resolve_local" =>
        LET named == {k \in 1..local_count(compiler) :
                        compiler.locals[k].name.lexeme = kop.name.lexeme}
        IN  kop.ret =
                IF named = {} THEN None
                ELSE Some([slot |-> Max(named) - 1,
                           initialized |->
                               compiler.locals[Max(named)].depth # None])

\* C7 as stated: end_scope decrements scope_depth, removes exactly the
\* trailing locals deeper than the new depth and returns their number, and
\* the block's Pop count is that number and equals the number of locals
\* added at the block's scope depth.
C7_PopsEqualLocalsAdded ==
    kop.op = "end_scope" =>
        /\ compiler.scope_depth = kop.before.scope_depth - 1
        /\ compiler.locals =
               SubSeq(kop.before.locals, 1, local_count(compiler))
        /\ \A k \in 1..local_count(kop.before) :
               k > local_count(compiler)
                   => kop.before.locals[k].depth.some > compiler.scope_depth
        /\ local_count(compiler) > 0
               => compiler.locals[local_count(compiler)].depth.some
                      <= compiler.scope_depth
        /\ kop.count = local_count(kop.before) - local_count(compiler)
        /\ kop.pops = kop.count
        /\ kop.pops = kop.added

\* The byte operand of the instruction at offset `at` of chunk c.
OperandAt(c, at) == c.code[at + 2]

\* C1 as stated: GetLocal with operand slot pushes a copy of stack[slot],
\* slot counted from the bottom of the value stack, whatever lies above the
\* locals.  Fails: the VM reads peek_at(slot), slot counted from the top.
C1_GetLocalReadsSlotFromBottom ==
    (vop.op = "GetLocal" /\ vop.result = "continue") =>
        /\ OperandAt(vop.chunk, vop.at) < Len(vop.values)
        /\ vm.values = Append(vop.values,
                              vop.values[OperandAt(vop.chunk, vop.at) + 1])

\* The offsets of chunk c at which an instruction starts, from offset on,
\* as machine m reads them: an opcode and the operand bytes it takes.
RECURSIVE InstructionStarts(_, _, _)
InstructionStarts(m, c, offset) ==
    IF offset >= Len(c.code) THEN {}
    ELSE LET decoded == decode(m, c.code[offset + 1])
         IN  {offset} \cup
                InstructionStarts(m, c,
                    offset + 1 + (IF "ok" \in DOMAIN decoded
                                  THEN Operands(decoded.ok) ELSE 0))

VMLive ==
    MachineRefs(vm.values, vm.globals)
        \cup (IF running = None THEN {}
              ELSE StringRefs(running.some.constants))

\* C5: any two String values alive at the same time in one VM compare
\* equal under Value equality iff their texts are equal, whether they come
\* from literals or from Add, also across interpret calls with
\* garbage_collect in between.
C5_EqualIffSameText ==
    \A r1, r2 \in VMLive :
        ValueEq(String(r1), String(r2)) <=> (r1.text = r2.text)

\* C5's case: the third instruction of a second interpret call, after a
\* garbage_collect, is an Equal that has compared a global, a string made
\* by Add in the first call, with a literal of the same text, while a
\* string of another text is alive too.
C5_Witness ==
    /\ vop.op = "Equal"
    /\ calls = 2
    /\ steps = 3
    /\ collected
    /\ Len(vop.values) >= 2
    /\ LET l == vop.values[Len(vop.values) - 1]
           r == vop.values[Len(vop.values)]
       IN  /\ l.t = "String" /\ r.t = "String"
           /\ Len(l.v.text) = 2
           /\ l.v.text = r.v.text
           /\ vm.values[Len(vm.values)] = Bool(TRUE)
    /\ \E r1, r2 \in VMLive : r1.text # r2.text

\* C20 as stated: for every word of ASCII letters and digits that starts
\* with a letter, scan_token returns the token of the keyword's kind if the
\* word is exactly one of and class else false for fun if nil or print
\* return super this true var while, and an Identifier token otherwise.
C20_KeywordIffListed ==
    (sop.op = "scan_token" /\ sop.before.current = 0
        /\ sop.before.source \in Words) =>
        /\ "res" \in DOMAIN sop
        /\ sop.res = Token(IF sop.before.source \in DOMAIN Keywords
                           THEN Keywords[sop.before.source]
                           ELSE "Identifier",
                           sop.before.source, 1)

\* The name a global instruction at offset at of chunk c refers to.
GlobalName(c, at) == c.constants[OperandAt(c, at) + 1].v.text

\* C11: SetGlobal on a name that is not in globals returns RuntimeError with
\* the message "Undefined variable '<name>'." and leaves the globals map
\* exactly as it was; on a name that is in globals it rebinds the name to
\* the value on top of the stack and does not pop it.
C11_SetGlobalOnlyRebinds ==
    vop.op = "SetGlobal" =>
        LET name == GlobalName(vop.chunk, vop.at)
        IN  IF name \in DOMAIN vop.before.globals
            THEN /\ vop.result = "continue"
                 /\ vm.values = vop.values
                 /\ DOMAIN vm.globals = DOMAIN vop.before.globals
                 /\ \A n \in DOMAIN vm.globals :
                        vm.globals[n] = IF n = name
                                        THEN vop.values[Len(vop.values)]
                                        ELSE vop.before.globals[n]
            ELSE /\ vop.result = "RuntimeError"
                 /\ Len(vop.stderr) = 1
                 /\ vop.stderr[1].msg = UndefinedVariable(name)
                 /\ vm.globals = vop.before.globals
                 /\ vm.values = vop.values

\* C11's case: SetGlobal has just failed on an undefined name while another
\* global is defined.
C11_Witness ==
    /\ vop.op = "SetGlobal"
    /\ vop.result = "RuntimeError"
    /\ vop.before.globals # <<>>
    /\ GlobalName(vop.chunk, vop.at) \notin DOMAIN vm.globals

\* C12 as stated: if a scan or parse error is reported while compiling,
\* compile returns no chunk and interpret returns CompileError and runs no
\* instruction: nothing is printed and the globals and the value stack are
\* as before the call.  Fails on `print 1; @ f`: the error at @ is reported
\* and then the scanner panics on the word f, so that interpret returns
\* nothing.
C12_ErrorMeansNoRun ==
    (vop.op = "interpret" /\ vop.stderr # <<>>) =>
        /\ vop.result = "CompileError"
        /\ running = None
        /\ steps = 0
        /\ vm.stdout = vop.before.stdout
        /\ vm.globals = vop.before.globals
        /\ vm.values = vop.before.values

\* A step of run.
RunStep == "at" \in DOMAIN vop

\* C13: once an instruction raises a runtime error, run returns
\* RuntimeError and no later instruction of the chunk executes (the next
\* step of the VM is a new interpret call or garbage_collect), and what was
\* printed and defined before the fault remains.
C13_AbortsOnFirstFault ==
    /\ []((RunStep /\ vop.stderr # <<>>) =>
            /\ vop.result = "RuntimeError"
            /\ running = None
            /\ vm.stdout = vop.before.stdout
            /\ vm.globals = vop.before.globals)
    /\ [][(RunStep /\ vop.stderr # <<>>) =>
            vop'.op \in {"interpret", "garbage_collect"}]_vars

\* C13's case: an instruction has just raised a runtime error after the
\* same run printed, with instructions left in the chunk.
C13_Witness ==
    /\ RunStep
    /\ vop.result = "RuntimeError"
    /\ Len(vm.stdout) > vop.printed
    /\ vm.ip < Len(vop.chunk.code) - 1

\* C14: Add takes the right operand, then the left one, off the stack: two
\* Numbers push their sum; two Strings push the interned string whose text
\* is the left text followed by the right text; any other pair returns
\* RuntimeError with the message "Operands must be two numbers or two
\* strings." and pushes nothing.
C14_AddSumsOrConcatenates ==
    vop.op = "Add" =>
        LET right == vop.values[Len(vop.values)]
            left == vop.values[Len(vop.values) - 1]
            rest == SubSeq(vop.values, 1, Len(vop.values) - 2)
            pushed == vm.values[Len(vm.values)]
        IN  CASE left.t = "Number" /\ right.t = "Number" ->
                    /\ vop.result = "continue"
                    /\ vm.values =
                            Append(rest, Float(F64Add(left.v, right.v)))
              [] left.t = "String" /\ right.t = "String" ->
                    /\ vop.result = "continue"
                    /\ vm.values = Append(rest, pushed)
                    /\ pushed.t = "String"
                    /\ pushed.v.text = left.v.text \o right.v.text
                    /\ pushed.v.text \in DOMAIN vm.strings
                    /\ vm.strings[pushed.v.text] = pushed.v.addr
              [] OTHER ->
                    /\ vop.result = "RuntimeError"
                    /\ vop.stderr[1].msg =
                            "Operands must be two numbers or two strings."
                    /\ vm.values = rest

\* C14's case: Add has just concatenated two Strings of different texts,
\* on a VM that has added 0.1 and 0.2 and printed the f64 next above 0.3.
C14_Witness ==
    /\ vop.op = "Add"
    /\ << "0", ".", "3", "0", "0", "0", "0", "0", "0", "0", "0", "0", "0",
          "0", "0", "0", "0", "0", "4" >> \in Range(vm.stdout)
    /\ vop.result = "continue"
    /\ vop.values[Len(vop.values)].t = "String"
    /\ vop.values[Len(vop.values) - 1].t = "String"
    /\ vop.values[Len(vop.values)].v.text
            # vop.values[Len(vop.values) - 1].v.text
    /\ vm.values[Len(vm.values)].v.text = << "a", "b" >>

\* Nil or Bool(false), by tag.
NilOrFalse(value) == value.t = "Nil" \/ (value.t = "Bool" /\ ~value.v)

\* The case of a source of SpecLogical.
LogicalCase(source) ==
    CHOOSE case \in LogicalCases : LogicalSource(case) = source

\* C15: an and / or expression leaves exactly one value in its place: for
\* and the left value if it is falsey, else the right one; for or the left
\* value if it is truthy, else the right one; and the right operand's code
\* does not run when the left value decides.  On the sources of
\* SpecLogical: the first print finds that one value alone on the stack and
\* prints it, and the second print shows c assigned iff the right operand
\* had to run.
C15_ShortCircuit ==
    /\ (RunStep /\ vop.op = "Print") => Len(vop.values) = 1
    /\ (RunStep /\ vop.op = "Return") =>
        LET case == LogicalCase(vop.source)
            decided == IF case.op = "And" THEN NilOrFalse(case.lhs)
                       ELSE ~NilOrFalse(case.lhs)
        IN  /\ vop.result = "Ok"
            /\ vm.values = <<>>
            /\ SubSeq(vm.stdout, vop.printed + 1, Len(vm.stdout))
                = << Display(IF decided THEN case.lhs ELSE case.rhs),
                     Display(IF decided THEN Number(7) ELSE case.rhs) >>

\* C15's case: a source whose left operand decides an or has run to its
\* end, on a VM whose first source needed its right operand.
C15_Witness ==
    /\ RunStep
    /\ vop.op = "Return"
    /\ calls = 2
    /\ LogicalCase(vop.source).op = "Or"
    /\ ~NilOrFalse(LogicalCase(vop.source).lhs)
    /\ vop.printed = 2
    /\ vm.stdout[1] = vm.stdout[2]
    /\ vm.stdout[1] # Display(Number(7))
    /\ vm.stdout[4] = Display(Number(7))

\* The locals of the table at the current scope depth: those marked with
\* it and those being declared.
CurrentDepthLocals ==
    {k \in DOMAIN compiler.locals :
        \/ compiler.locals[k].depth = None
        \/ compiler.locals[k].depth.some = compiler.scope_depth}

\* C16: add_local(name) fails exactly when local_count is 256, with "Too
\* many local variables in function.", or when a local of the table at
\* the current scope depth has the same lexeme, with "Already a variable
\* with this name in this scope."; a local of that name in an enclosing
\* scope does not make it fail.  A failure leaves local_count, the locals
\* and scope_depth as they were; a success appends the new local,
\* uninitialized.
C16_AddLocalFailsExactly ==
    [][(~declaring /\ declaring') =>
        LET name == kop'.name
            full == Len(compiler.locals) = 256
            same == \E k \in CurrentDepthLocals :
                        compiler.locals[k].name.lexeme = name.lexeme
        IN  /\ kop'.op = "add_local"
            /\ kop'.res = IF full
                          THEN "Too many local variables in function."
                          ELSE IF same
                          THEN "Already a variable with this name in this scope."
                          ELSE "Ok"
            /\ compiler' = IF full \/ same THEN compiler
                           ELSE [compiler EXCEPT !.locals =
                                    Append(@, [name |-> name,
                                               depth |-> None])]]_vars

\* C16's case: add_local has just added a local whose name a local of an
\* enclosing scope has.
C16_Witness ==
    /\ kop.op = "add_local"
    /\ kop.res = "Ok"
    /\ declaring
    /\ compiler.locals[Len(compiler.locals)].depth = None
    /\ \E k \in 1..(Len(compiler.locals) - 1) :
        /\ compiler.locals[k].name.lexeme = kop.name.lexeme
        /\ compiler.locals[k].depth # None
        /\ compiler.locals[k].depth.some < compiler.scope_depth

\* The compile of a source has run to its end, driven as compile drives it.
Compiled(source) ==
    pop.op = "end" /\ pop.compiling /\ pop.source = source

\* What is written to stderr for a message at a token of line 1.
ReportAt(lexeme, msg) ==
    [line |-> 1, at |-> Some([lexeme |-> lexeme]), msg |-> msg]

\* C17: when the initializer of a local a names a, alone, inside a larger
\* expression or as the target of an assignment, the parser reports "Can't
\* read local variable in its own initializer." at that a and compile
\* returns no chunk, whether or not an enclosing block or the globals have
\* an a of their own; when an earlier error of the same statement has put
\* the parser in panic mode the report is suppressed like any other and the
\* compile fails on the earlier error; an initializer that does not name a
\* compiles without error.
C17_OwnInitializerIsAnError ==
    \A case \in InitializerCases :
        Compiled(InitializerSource(case)) =>
            CASE case.init \in {"number", "other"} ->
                    parsing.errors = <<>> /\ pop.result # None
              [] case.init = "panic" ->
                    /\ pop.result = None
                    /\ parsing.errors
                         = << ReportAt(<< ")" >>, "Expect expression.") >>
              [] OTHER ->
                    /\ pop.result = None
                    /\ parsing.had_error
                    /\ parsing.errors
                         = << ReportAt(<< "a" >>,
                                "Can't read local variable in its own initializer.")
                            >>

\* C17's case: `{ var a = 1; { var a = a; } }` has been compiled: the inner
\* a's initializer names a while an initialized a of the enclosing block is
\* in the table, the error is reported and there is no chunk.
C17_Witness ==
    /\ Compiled(InitializerSource([init |-> "self", outer |-> "local"]))
    /\ pop.result = None
    /\ Len(parsing.errors) = 1
    /\ parsing.errors[1].msg
         = "Can't read local variable in its own initializer."

\* C18: compiling `L = R;`, at the top level or in a block where a is a
\* local: when L is not a bare variable (a + b, a * b, (a), -a, !a, 1, "s",
\* a == b, nil) the parser reports "Invalid assignment target." at the `=`
\* and compile returns no chunk; when L is the bare variable a there is no
\* error and the chunk is R's code, then SetGlobal or SetLocal of a, then
\* the statement's Pop.
C18_InvalidAssignmentTarget ==
    \A case \in AssignCases :
        Compiled(AssignSource(case)) =>
            IF case.lhs = "bare"
            THEN /\ parsing.errors = <<>>
                 /\ pop.result # None
                 /\ disassemble(pop.result.some).ins
                      = (IF case.local THEN << Op1("Constant", 0) >>
                         ELSE <<>>)
                        \o << Op1(IF case.rhs = "variable" THEN "GetGlobal"
                                  ELSE "Constant", 1),
                              Op1(IF case.local THEN "SetLocal"
                                  ELSE "SetGlobal", 0),
                              Op0("Pop") >>
                        \o (IF case.local THEN << Op0("Pop") >> ELSE <<>>)
                        \o << Op0("Return") >>
            ELSE /\ pop.result = None
                 /\ parsing.had_error
                 /\ parsing.errors
                      = << ReportAt(<< "=" >>, "Invalid assignment target.") >>

\* C18's case: `a + b = c;` has been compiled: the error is reported at the
\* `=` and there is no chunk.
C18_Witness ==
    /\ Compiled(AssignSource([lhs |-> "sum", rhs |-> "variable",
                              local |-> FALSE]))
    /\ pop.result = None
    /\ parsing.errors
         = << ReportAt(<< "=" >>, "Invalid assignment target.") >>

\* Where synchronize stops: just after a `;`, before a token that starts a
\* statement, or at Eof.
StopsAt(p) ==
    \/ p.previous.some.kind = "Semicolon"
    \/ p.current.kind \in {"Class", "Fun", "Var", "For", "If", "While",
                           "Print", "Return"}
    \/ p.current.kind = "Eof"

ReportingCalls == {"advance", "consume", "error_at_current", "error"}

\* C19: a call that reports an error leaves the parser in panic_mode with
\* had_error set, and error and error_at_current outside panic_mode do
\* report; in panic_mode no call but synchronize, alone or at the end of
\* declaration, reports anything or leaves panic_mode; synchronize leaves
\* the parser just after a `;`, before one of class fun var for if while
\* print return, or at Eof, does not move a parser that is already there,
\* and leaves it in panic_mode only when the tokens it skipped held a scan
\* error, which it has then reported; what has been reported stays
\* reported and had_error, once set, stays set.  What a call leaves is
\* what it returns with: a call the scanner's panic ends returns nothing.
C19_PanicUntilSynchronize ==
    /\ [](/\ parsing.errors # <<>> => parsing.had_error
          /\ parsing.panic_mode => parsing.had_error)
    /\ [][LET before == parsing
              after == parsing'
              call == pop'.op
              reported == Len(after.errors) > Len(before.errors)
          IN  /\ Len(after.errors) >= Len(before.errors)
              /\ SubSeq(after.errors, 1, Len(before.errors)) = before.errors
              /\ before.had_error => after.had_error
              /\ reported => after.had_error
              /\ ~after.panicked =>
                  /\ (call \in ReportingCalls /\ reported) =>
                        /\ after.panic_mode
                        /\ Len(after.errors) = Len(before.errors) + 1
                  /\ (call \in {"error_at_current", "error"}
                      /\ ~before.panic_mode) => reported
                  /\ (before.panic_mode /\ call \in ReportingCalls) =>
                        ~reported /\ after.panic_mode
                  /\ (before.panic_mode /\ ~after.panic_mode) =>
                        call \in {"synchronize", "declaration"}
                  /\ call = "synchronize" =>
                        /\ StopsAt(after)
                        /\ after.panic_mode = reported
                        /\ (StopsAt(before) /\ before.current.kind # "Eof") =>
                                after.scanner = before.scanner
                  /\ (call = "declaration" /\ after.panic_mode) =>
                        /\ StopsAt(after)
                        /\ reported
                        /\ after.errors[Len(after.errors)].at = None
         ]_vars

\* C19's case: synchronize has just returned for the second time, before a
\* print that does not follow a `;`, with two errors reported.
C19_Witness ==
    /\ pop.op = "synchronize"
    /\ Len(parsing.errors) = 2
    /\ parsing.had_error
    /\ ~parsing.panic_mode
    /\ parsing.current.kind = "Print"
    /\ parsing.previous.some.kind # "Semicolon"

\* C21: a scan_token call on a scanner whose cursor is at the end of the
\* source returns the Eof token, with the empty lexeme and the scanner's
\* line, and leaves the cursor and the line as they were.
C21_EofIsAbsorbing ==
    [][(scanning.current = Len(scanning.source) /\ sop'.op = "scan_token"
            /\ sop'.before = scanning) =>
        /\ "res" \in DOMAIN sop'
        /\ sop'.res = Token("Eof", <<>>, scanning.line)
        /\ scanning'.current = scanning.current
        /\ scanning'.line = scanning.line]_vars

\* C21's case: scan_token has just returned Eof again, called on the
\* scanner an earlier Eof left at the end of a source of several lines.
C21_Witness ==
    /\ sop.op = "scan_token"
    /\ "res" \in DOMAIN sop
    /\ "kind" \in DOMAIN sop.res
    /\ sop.res.kind = "Eof"
    /\ sop.before.start = Len(sop.before.source)
    /\ sop.before.current = Len(sop.before.source)
    /\ sop.before = scanning
    /\ scanning.line > 1

\* C29 as stated: every scan_token call returns a token or a ScanErr and
\* never aborts, also on the one-letter words f and t.
C29_ScanTokenIsTotal ==
    sop.op = "scan_token" =>
        /\ "panic" \notin DOMAIN sop
        /\ "res" \in DOMAIN sop
        /\ \/ DOMAIN sop.res = {"kind", "lexeme", "line"}
           \/ DOMAIN sop.res = {"err"}

\* The two-byte operand of the jump at offset `at` of chunk c.
JumpOperandAt(c, at) == FromBeBytes(c.code[at + 2], c.code[at + 3])

Takes(op) ==
    CASE op \in {"Equal", "Greater", "Less", "Add", "Subtract", "Multiply",
                 "Divide"} -> 2
      [] op \in {"JumpIfFalse", "DefineGlobal", "SetGlobal", "SetLocal",
                 "Pop", "Print", "Negate", "Not"} -> 1
      [] OTHER -> 0

ConditionStart(source) ==
    CASE source = ControlSources["while_never"] -> 0
         \* var a = true;  is  True, DefineGlobal a
      [] source = ControlSources["while_once"] -> 1 + 2
         \* var i = 0;  is  Constant 0, DefineGlobal i
      [] source = ControlSources["while_twice"] -> 2 + 2
         \* { var x = 1;  is  Constant 1
      [] source = ControlSources["while_local"] -> 2

ControlDepth(source) ==
    IF source \in {ControlSources["if_local"], ControlSources["while_local"]}
    THEN 1 ELSE 0

C26_OpcodeDecodingIsValidated ==
    /\ {OpcodeByte(op) : op \in Range(OpcodeDeclared)} = 1..OPCODE_MAX
    /\ \A op \in Range(OpcodeDeclared) :
            OpcodeTryFrom(OpcodeByte(op)) = [ok |-> op]
    /\ (RunStep /\ vop.at < Len(vop.chunk.code)) =>
            LET b == vop.chunk.code[vop.at + 1]
            IN  /\ (vop.op # "none") = (b \in 1..OPCODE_MAX)
                /\ vop.op # "none" =>
                        /\ vop.op \in Range(OpcodeDeclared)
                        /\ OpcodeByte(vop.op) = b
                /\ b \notin 1..OPCODE_MAX =>
                        /\ vop.result = "CompileError"
                        /\ running = None
                        /\ vm.values = vop.values
                        /\ vm.globals = vop.before.globals
                        /\ vm.stdout = Append(vop.before.stdout,
                                              [invalid_opcode |-> b])

\* C26's case: run has just read the byte after OPCODE_MAX with two values
\* on the stack and returned CompileError.
C26_Witness ==
    /\ RunStep
    /\ vop.at = 0
    /\ vop.chunk.code[vop.at + 1] = OPCODE_MAX + 1
    /\ vop.result = "CompileError"
    /\ Len(vm.values) = 2
    /\ DOMAIN vm.globals # {}

\* C27: the globals change only when DefineGlobal or SetGlobal runs:
\* DefineGlobal pops the top and binds the name to it, defined before or
\* not; a SetGlobal that succeeds rebinds a defined name to the top;
\* GetGlobal of a defined name pushes the value the globals hold for it;
\* and no other step, of this interpret call or of a later one, failing or
\* not, changes the globals or removes a name from them.
C27_GlobalsPersist ==
    [][LET ran == "at" \in DOMAIN vop'
           op == vop'.op
           name == GlobalName(running.some, vm.ip)
           top == vm.values[Len(vm.values)]
           rest == SubSeq(vm.values, 1, Len(vm.values) - 1)
       IN  /\ DOMAIN vm.globals \subseteq DOMAIN vm'.globals
           /\ (ran /\ op = "DefineGlobal") =>
                /\ vop'.result = "continue"
                /\ vm'.values = rest
                /\ DOMAIN vm'.globals = DOMAIN vm.globals \cup {name}
                /\ \A n \in DOMAIN vm'.globals :
                        vm'.globals[n] = IF n = name THEN top
                                         ELSE vm.globals[n]
           /\ (ran /\ op = "SetGlobal" /\ vop'.result = "continue") =>
                /\ name \in DOMAIN vm.globals
                /\ vm'.globals = [vm.globals EXCEPT ![name] = top]
           /\ (ran /\ op = "GetGlobal" /\ name \in DOMAIN vm.globals) =>
                /\ vop'.result = "continue"
                /\ vm'.values = Append(vm.values, vm.globals[name])
           /\ ~(ran /\ op \in {"DefineGlobal", "SetGlobal"}
                    /\ vop'.result = "continue") =>
                vm'.globals = vm.globals]_vars

\* C27's case: in a third interpret call GetGlobal has just pushed the
\* number the first call bound, above the 3 that the second call left on
\* the stack when it failed at run time.
C27_Witness ==
    /\ calls = 3
    /\ RunStep
    /\ vop.op = "GetGlobal"
    /\ vop.result = "continue"
    /\ vop.values = << Number(3) >>
    /\ vm.values = << Number(3), Number(1) >>
    /\ vm.globals[<< "a" >>] = Number(1)

\* C28 as stated: whenever interpret has returned, with Ok, CompileError or
\* RuntimeError, the value stack of the VM is empty.
C28_StackEmptyAfterInterpret ==
    (running = None /\ vop.result \in {"Ok", "CompileError", "RuntimeError"})
        => vm.values = <<>>

\* The scan results the parser has taken: its place among the results of
\* the scanner, Eof counted when it is the current token.
Consumed(p) == p.scanner.pos + (IF p.current.kind = "Eof" THEN 1 ELSE 0)

\* C30: the loop of compile reaches its end on every source, with and
\* without errors, blocks left open included, unless a panic of the
\* scanner ends it before, and every declaration() call that returns has
\* taken at least one scan result.
C30_CompileTerminates ==
    /\ <>(pop.op = "end" \/ parsing.panicked)
    /\ [][pop'.op = "declaration" /\ ~parsing'.panicked =>
            Consumed(parsing') > Consumed(parsing)]_vars

\* C30's case: the compile of `{ var a = 1; { print a`, which ends inside
\* two open blocks, has reached its end with an error reported.
C30_Witness ==
    /\ Compiled(RecoverySources["open"])
    /\ parsing.had_error
    /\ pop.result = None
    /\ parsing.current.kind = "Eof"

====
